---- MODULE Spec2Model ----
(***************************************************************************)
(* Stress-management backend: the offline training pipeline                *)
(* (backend/src/stress_model.py, backend/src/run_projectml.py) and the     *)
(* serving variants (backendd/app.py on SQLite, backend/src/app_mongodb.py *)
(* and backendd/app_mongodb.py on MongoDB).                                *)
(*                                                                         *)
(* Strings whose characters matter (clock strings, category values, user   *)
(* ids) are sequences of one-character strings.  A cell value is a record  *)
(* [t, n, s]: t is "num", "str", "null" (None), "nan" or "unset".          *)
(***************************************************************************)
EXTENDS Integers, Sequences, FiniteSets, TLC

VARIABLES variant, bundle_file, model_data, pc, stress_history, last,
          t_in, t_serve, t_train, users, mood_journal, dataset, fitted,
          conns, gemini_model

vars == <<variant, bundle_file, model_data, pc, stress_history, last,
          t_in, t_serve, t_train, users, mood_journal, dataset, fitted,
          conns, gemini_model>>

\* ------------------------------------------------------------------ bounds
\* Distinct category values per categorical field in the training data.
MaxVocab == 2

\* Cap on the number of stress_history records.
MaxHistory == 2

\* ------------------------------------------------------------------ values
Num(n) == [t |-> "num", n |-> n, s |-> <<>>]

Str(s) == [t |-> "str", n |-> 0, s |-> s]

None == [t |-> "null", n |-> 0, s |-> <<>>]

NaN == [t |-> "nan", n |-> 0, s |-> <<>>]

Unset == [t |-> "unset", n |-> 0, s |-> <<>>]

\* pd.isnull(t) on a scalar: None and float nan.
pd_isnull(v) == v.t \in {"null", "nan"}

\* ------------------------------------------------------- time normalization
DigitChars == <<"0", "1", "2", "3", "4", "5", "6", "7", "8", "9">>

IsDigit(c) == \E i \in 1..10 : DigitChars[i] = c

DigitVal(c) == (CHOOSE i \in 1..10 : DigitChars[i] = c) - 1

\* int(s) for a run of one or two digits.
DigitsVal(s) ==
    IF Len(s) = 1 THEN DigitVal(s[1]) ELSE 10 * DigitVal(s[1]) + DigitVal(s[2])

AllDigits(s) == \A i \in 1..Len(s) : IsDigit(s[i])

\* str(n) for 0 <= n <= 99.
IntToChars(n) ==
    IF n < 10 THEN <<DigitChars[n + 1]>>
    ELSE <<DigitChars[(n \div 10) + 1], DigitChars[(n % 10) + 1]>>

\* A clock string "H:MM", "H:MM AM" or "H:MM PM" as the docstring's example
\* '7:00 AM' writes it (sfx is "", "AM" or "PM").
FormatClock(h, m, sfx) ==
    IntToChars(h) \o <<":">> \o <<DigitChars[(m \div 10) + 1], DigitChars[(m % 10) + 1]>>
      \o (IF sfx = "" THEN <<>> ELSE <<" ", IF sfx = "AM" THEN "A" ELSE "P", "M">>)

\* pd.to_datetime on a string: "" gives NaT; a clock string gives a Timestamp
\* with that hour and minute (12-hour clock adjusted by AM/PM); anything else
\* raises.  Result kind: "ts" (Timestamp), "nat" (NaT) or "raise".
pd_to_datetime_str(s) ==
    LET bad == [kind |-> "raise", hour |-> 0, minute |-> 0]
        colon == IF Len(s) >= 2 /\ s[2] = ":" THEN 2
                 ELSE IF Len(s) >= 3 /\ s[3] = ":" THEN 3 ELSE 0
    IN  IF s = <<>> THEN [kind |-> "nat", hour |-> 0, minute |-> 0]
        ELSE IF colon = 0 \/ Len(s) < colon + 2 THEN bad
        ELSE LET hs == SubSeq(s, 1, colon - 1)
                 ms == SubSeq(s, colon + 1, colon + 2)
                 rest == SubSeq(s, colon + 3, Len(s))
             IN  IF ~(AllDigits(hs) /\ AllDigits(ms)) THEN bad
                 ELSE LET h == DigitsVal(hs)
                          m == DigitsVal(ms)
                      IN  IF m > 59 THEN bad
                          ELSE IF rest = <<>> THEN
                               IF h > 23 THEN bad
                               ELSE [kind |-> "ts", hour |-> h, minute |-> m]
                          ELSE IF rest = <<" ", "A", "M">> THEN
                               IF h > 12 THEN bad
                               ELSE [kind |-> "ts", hour |-> IF h = 12 THEN 0 ELSE h,
                                     minute |-> m]
                          ELSE IF rest = <<" ", "P", "M">> THEN
                               IF h > 12 THEN bad
                               ELSE [kind |-> "ts", hour |-> IF h < 12 THEN h + 12 ELSE h,
                                     minute |-> m]
                          ELSE bad

\* pd.to_datetime on a cell value: an integer is nanoseconds since the epoch
\* (hour 0, minute 0 for the small integers used here).
pd_to_datetime(v) ==
    IF v.t = "str" THEN pd_to_datetime_str(v.s)
    ELSE IF v.t = "num" THEN [kind |-> "ts", hour |-> 0, minute |-> 0]
    ELSE [kind |-> "nat", hour |-> 0, minute |-> 0]

\* x.hour * 60 + x.minute: NaT.hour and NaT.minute are nan.
HourMinute(x) == IF x.kind = "nat" THEN NaN ELSE Num(x.hour * 60 + x.minute)

\* Serving: time_to_minutes of the MongoDB variants.
time_to_minutes(v) ==
    IF pd_isnull(v) \/ v.t = "null" THEN Num(420)
    ELSE LET x == pd_to_datetime(v)
         IN  IF x.kind = "raise" THEN Num(420) ELSE HourMinute(x)

\* Training: time_to_minutes of stress_model.py (run_projectml.py has the same body).
train_time_to_minutes(v) ==
    IF pd_isnull(v) THEN NaN
    ELSE LET x == pd_to_datetime(v)
         IN  IF x.kind = "raise" THEN NaN ELSE HourMinute(x)

\* ------------------------------------------------------------------ fields
\* Feature order of the data set (the CSV's columns before the target).
features ==
    <<"Age", "Gender", "Occupation", "Marital_Status", "Sleep_Duration",
      "Sleep_Quality", "Wake_Up_Time", "Bed_Time", "Physical_Activity",
      "Screen_Time", "Caffeine_Intake", "Alcohol_Intake", "Smoking_Habit",
      "Work_Hours", "Travel_Time", "Social_Interactions", "Meditation_Practice",
      "Exercise_Type", "Blood_Pressure", "Cholesterol_Level", "Blood_Sugar_Level">>

\* df.columns of the loaded CSV: the features, then the target as last column.
csv_columns == features \o <<"Stress_Detection">>

cat_cols ==
    <<"Gender", "Occupation", "Marital_Status",
      "Smoking_Habit", "Meditation_Practice", "Exercise_Type">>

time_cols == <<"Wake_Up_Time", "Bed_Time">>

\* numeric_cols after numeric_cols.extend(time_cols).
numeric_cols ==
    <<"Age", "Sleep_Duration", "Sleep_Quality", "Physical_Activity",
      "Screen_Time", "Caffeine_Intake", "Alcohol_Intake",
      "Work_Hours", "Travel_Time", "Social_Interactions",
      "Blood_Pressure", "Cholesterol_Level", "Blood_Sugar_Level">> \o time_cols

\* SQLite variant: the columns it looks up a label encoder for.
categorical_cols ==
    <<"Gender", "Occupation", "Marital_Status", "Sleep_Quality",
      "Wake_Up_Time", "Bed_Time", "Physical_Activity",
      "Caffeine_Intake", "Alcohol_Intake", "Smoking_Habit",
      "Social_Interactions", "Meditation_Practice", "Exercise_Type",
      "Blood_Pressure", "Cholesterol_Level", "Blood_Sugar_Level">>

\* SQLite variant: the columns it scales.
numerical_cols == <<"Age", "Sleep_Duration", "Screen_Time", "Work_Hours", "Travel_Time">>

target_mapping == [l \in {"Low", "Medium", "High"} |->
                     IF l = "Low" THEN 1 ELSE IF l = "Medium" THEN 2 ELSE 3]

inverse_mapping == [c \in 1..3 |->
                      IF c = 1 THEN "Low" ELSE IF c = 2 THEN "Medium" ELSE "High"]

Range(q) == {q[i] : i \in 1..Len(q)}

IndexOf(q, x) == CHOOSE i \in 1..Len(q) : q[i] = x

\* [x for x in q if x in S], order kept.
Filter(q, S) == SelectSeq(q, LAMBDA x : x \in S)

\* A DataFrame column label: a plain column, or the one-hot column f_c that
\* get_feature_names_out names for category c of field f.
Col(f) == [f |-> f, c |-> <<>>]

EncCol(f, c) == [f |-> f, c |-> c]

\* ------------------------------------------------------- string ordering
\* The characters in use, in code-point order.
CharOrder ==
    <<" ", "0", "1", "2", "3", "4", "5", "6", "7", "8", "9", ":",
      "A", "M", "P", "a", "b", "c", "d", "e", "n", "u", "z">>

CharLess(a, b) == IndexOf(CharOrder, a) < IndexOf(CharOrder, b)

\* Python's str < str.
RECURSIVE StrLess(_, _)
StrLess(a, b) ==
    IF b = <<>> THEN FALSE
    ELSE IF a = <<>> THEN TRUE
    ELSE IF Head(a) = Head(b) THEN StrLess(Tail(a), Tail(b))
    ELSE CharLess(Head(a), Head(b))

\* np.unique / sorted(set(...)) over strings.
SortedUnique(S) ==
    CHOOSE q \in [1..Cardinality(S) -> S] :
        /\ Range(q) = S
        /\ \A i, j \in 1..Cardinality(S) : i < j => StrLess(q[i], q[j])

\* ------------------------------------------------------------ training data
\* Category values that occur in the training data.
Letters == <<"a", "b", "c", "d">>

Labels == <<"Low", "Medium", "High">>

\* Row i of a data set in which every categorical field takes nv values,
\* every class has nv rows and Alcohol_Intake has the same value in every row:
\* x maps each feature to its cell, y is the label.
TrainRow(i, nv) ==
    [x |-> [f \in Range(features) |->
              IF f \in Range(cat_cols) THEN Str(<<Letters[((i - 1) % nv) + 1]>>)
              ELSE IF f = "Wake_Up_Time" THEN Str(FormatClock(6 + (i % 2), 0, "AM"))
              ELSE IF f = "Bed_Time" THEN Str(FormatClock(10 + (i % 2), 30, "PM"))
              ELSE IF f = "Alcohol_Intake" THEN Num(10 * IndexOf(features, f))
              ELSE Num(10 * IndexOf(features, f) + 2 * i)],
     y |-> Labels[((i - 1) \div nv) + 1]]

\* pd.read_csv(filepath): the data set as a sequence of rows.
load_data(nv) == [i \in 1..(3 * nv) |-> TrainRow(i, nv)]

\* ------------------------------------------------------------------- fitting
RECURSIVE SumSeq(_)
SumSeq(q) == IF q = <<>> THEN 0 ELSE Head(q) + SumSeq(Tail(q))

Isqrt(n) == CHOOSE r \in 0..n : r * r <= n /\ n < (r + 1) * (r + 1)

Min3(a, b, c) == IF a <= b /\ a <= c THEN a ELSE IF b <= c THEN b ELSE c

\* data[data['Stress_Detection'] == code], order kept.
ClassRows(rows, l) == SelectSeq(rows, LAMBDA r : r.y = l)

\* OneHotEncoder.fit: per field the sorted distinct values of its column.
ohe_fit(rows) ==
    [f \in Range(cat_cols) |-> SortedUnique({rows[i].x[f].s : i \in 1..Len(rows)})]

\* ohe.get_feature_names_out(cat_cols): field by field, category by category.
RECURSIVE get_feature_names_out(_, _)
get_feature_names_out(categories, cols) ==
    IF cols = <<>> THEN <<>>
    ELSE [i \in 1..Len(categories[Head(cols)]) |->
            EncCol(Head(cols), categories[Head(cols)][i])]
         \o get_feature_names_out(categories, Tail(cols))

\* The numeric content of a training cell after the time conversion.
TrainCell(row, f) ==
    IF f \in Range(time_cols) THEN train_time_to_minutes(row.x[f]) ELSE row.x[f]

\* The numbers of column f, nan cells left out (StandardScaler ignores them).
NumbersOf(cells) == [k \in 1..Len(cells) |-> cells[k].n]

ColumnNumbers(rows, f) ==
    NumbersOf(SelectSeq([i \in 1..Len(rows) |-> TrainCell(rows[i], f)],
                        LAMBDA v : v.t = "num"))

MeanOf(xs) == IF xs = <<>> THEN 0 ELSE SumSeq(xs) \div Len(xs)

VarOf(xs, mu) ==
    IF xs = <<>> THEN 0
    ELSE SumSeq([k \in 1..Len(xs) |-> (xs[k] - mu) * (xs[k] - mu)]) \div Len(xs)

\* _handle_zeros_in_scale: a zero scale is replaced by 1.
NonZeroScale(r) == IF r = 0 THEN 1 ELSE r

FitColumn(xs) ==
    [mean |-> MeanOf(xs), var |-> VarOf(xs, MeanOf(xs)),
     scale |-> NonZeroScale(Isqrt(VarOf(xs, MeanOf(xs))))]

ScalerOf(cols, fit) ==
    [cols |-> cols,
     mean |-> [f \in Range(numeric_cols) |-> IF f \in Range(cols) THEN fit[f].mean ELSE 0],
     var |-> [f \in Range(numeric_cols) |-> IF f \in Range(cols) THEN fit[f].var ELSE 1],
     scale |-> [f \in Range(numeric_cols) |-> IF f \in Range(cols) THEN fit[f].scale ELSE 1]]

\* StandardScaler.fit over the given columns: mean_ and scale_ per column
\* (integer arithmetic).
scaler_fit(rows, cols) ==
    ScalerOf(cols, [f \in Range(cols) |-> FitColumn(ColumnNumbers(rows, f))])

\* resample(..., replace=False, n_samples=n) of each class, concatenated.
Balanced(low, med, high, n) ==
    SubSeq(low, 1, n) \o SubSeq(med, 1, n) \o SubSeq(high, 1, n)

\* The columns of X: the frame's columns with the categorical ones replaced
\* by the encoded ones at the end, the target dropped.
XColumns(encoded_cols) ==
    SelectSeq([i \in 1..Len(csv_columns) |-> Col(csv_columns[i])],
              LAMBDA c : c.f \notin Range(cat_cols) \cup {"Stress_Detection"})
      \o encoded_cols

FitResult(categories, X_columns, data_balanced) ==
    [X_columns |-> X_columns,
     y |-> {target_mapping[data_balanced[i].y] : i \in 1..Len(data_balanced)},
     categories |-> categories,
     scaler |-> scaler_fit(data_balanced,
                           Filter(numeric_cols, {c.f : c \in Range(X_columns)})),
     cat_cols |-> cat_cols,
     numeric_cols |-> Filter(numeric_cols, {c.f : c \in Range(X_columns)})]

\* preprocess_data: the one-hot vocabulary, the balanced rows, the columns of
\* the training matrix X in their order, and the fitted scaler.
preprocess_data(df) ==
    FitResult(ohe_fit(df),
              XColumns(get_feature_names_out(ohe_fit(df), cat_cols)),
              Balanced(ClassRows(df, "Low"), ClassRows(df, "Medium"), ClassRows(df, "High"),
                       Min3(Len(ClassRows(df, "Low")), Len(ClassRows(df, "Medium")),
                            Len(ClassRows(df, "High")))))

\* model_data is None.
NoModel ==
    [kind |-> "none", keys |-> {}, classes |-> {}, n_features_in |-> 0,
     feature_names |-> <<>>, scaler_cols |-> <<>>,
     mean |-> [f \in Range(numeric_cols) |-> 0],
     var |-> [f \in Range(numeric_cols) |-> 1],
     scale |-> [f \in Range(numeric_cols) |-> 1],
     categories |-> [f \in Range(cat_cols) |-> <<>>],
     cat_cols |-> <<>>, numeric_cols |-> <<>>,
     inverse_mapping |-> inverse_mapping,
     le_classes |-> [f \in Range(features) |-> <<>>], le_target |-> <<>>]

\* The dict save_model dumps, for the model fitted on the X of preprocess_data.
save_model(fit) ==
    [NoModel EXCEPT
       !.kind = "onehot",
       !.keys = {"model", "scaler", "onehot_encoder", "cat_cols", "numeric_cols",
                 "target_mapping", "inverse_mapping"},
       !.classes = fit.y,
       !.n_features_in = Len(fit.X_columns),
       !.feature_names = fit.X_columns,
       !.scaler_cols = fit.scaler.cols,
       !.mean = fit.scaler.mean,
       !.var = fit.scaler.var,
       !.scale = fit.scaler.scale,
       !.categories = fit.categories,
       !.cat_cols = fit.cat_cols,
       !.numeric_cols = fit.numeric_cols]

\* The columns whose cells are strings in the data set.
string_cols == Filter(categorical_cols, Range(cat_cols) \cup Range(time_cols))

LabelBundleOf(df, scaler) ==
    [NoModel EXCEPT
       !.kind = "label",
       !.keys = {"model", "scaler", "label_encoders"},
       !.classes = {0, 1, 2},
       !.n_features_in = Len(features),
       !.feature_names = [i \in 1..Len(features) |-> Col(features[i])],
       !.scaler_cols = numerical_cols,
       !.mean = scaler.mean,
       !.var = scaler.var,
       !.scale = scaler.scale,
       !.le_classes = [f \in Range(features) |->
                         IF f \in Range(string_cols)
                         THEN SortedUnique({df[i].x[f].s : i \in 1..Len(df)})
                         ELSE <<>>],
       !.le_target = <<"High", "Low", "Medium">>]

\* The bundle shape the SQLite variant reads: model, scaler (over its
\* numerical_cols) and label_encoders, one LabelEncoder per string column and
\* one for the target, each with its classes_ sorted.
label_bundle(df) == LabelBundleOf(df, scaler_fit(df, numerical_cols))

\* ------------------------------------------------------------------ serving
\* A request body is an ordered mapping: a sequence of [k, v] pairs, keys distinct.
HasKey(data, k) == \E i \in 1..Len(data) : data[i].k = k

Get(data, k) == data[CHOOSE i \in 1..Len(data) : data[i].k = k].v

\* pd.DataFrame([data]): one row, one column per key, in key order.
DataFrame(data) == [i \in 1..Len(data) |-> [col |-> Col(data[i].k), val |-> data[i].v]]

Columns(df) == {df[i].col : i \in 1..Len(df)}

Cell(df, c) == df[CHOOSE i \in 1..Len(df) : df[i].col = c].val

\* df.drop(columns=...), order of the remaining columns kept.
Drop(df, names) == SelectSeq(df, LAMBDA x : x.col \notin names)

\* Fixed-point unit of a scaled value.
ScalePrec == 100

\* One cell through scaler.transform: (value - mean_) / scale_; nan stays nan.
Scaled(md, f, v) ==
    IF v.t = "num" THEN Num(((v.n - md.mean[f]) * ScalePrec) \div md.scale[f]) ELSE NaN

\* scaler.transform(df[cols]) raises ValueError when the columns are not the
\* ones the scaler was fitted on, or a cell is a non-numeric string.
ScalerRaises(md, df, cols) ==
    \/ cols # md.scaler_cols
    \/ \E c \in Range(cols) : Cell(df, Col(c)).t = "str"

\* df[cols] = scaler.transform(df[cols]): the cells are replaced in place.
ScaleInPlace(md, df, cols) ==
    [i \in 1..Len(df) |->
       IF df[i].col.c = <<>> /\ df[i].col.f \in Range(cols)
       THEN [df[i] EXCEPT !.val = Scaled(md, df[i].col.f, @)]
       ELSE df[i]]

\* The encoded frame: 1 in the column of the cell's own category, 0 elsewhere
\* (handle_unknown='ignore': an unknown value sets none).
EncodedFrame(names, df) ==
    [i \in 1..Len(names) |->
       [col |-> names[i],
        val |-> Num(IF Cell(df, Col(names[i].f)) = Str(names[i].c) THEN 1 ELSE 0)]]

\* ohe.transform(df[cat_cols]) with the columns of get_feature_names_out.
ohe_transform(md, df, cc) == EncodedFrame(get_feature_names_out(md.categories, cc), df)

\* for col in time_cols: if col in df.columns: df[col].apply(time_to_minutes)
ConvertTimes(df) ==
    [i \in 1..Len(df) |->
       IF df[i].col.f \in Range(time_cols)
       THEN [df[i] EXCEPT !.val = time_to_minutes(@)]
       ELSE df[i]]

\* The one-hot step, skipped unless every categorical column is present.
EncodeCategoricals(md, cc, df) ==
    IF "onehot_encoder" \in md.keys /\ \A c \in Range(cc) : Col(c) \in Columns(df)
    THEN Drop(df, {Col(c) : c \in Range(cc)}) \o ohe_transform(md, df, cc)
    ELSE df

Returned(df) == [raised |-> FALSE, exc |-> "", df |-> df]

Raised(e) == [raised |-> TRUE, exc |-> e, df |-> <<>>]

\* The scaling step over the numeric columns present, then the target dropped.
ScaleNumerics(md, cols, df) ==
    IF "scaler" \in md.keys /\ Len(cols) > 0
    THEN IF ScalerRaises(md, df, cols) THEN Raised("ValueError")
         ELSE Returned(Drop(ScaleInPlace(md, df, cols), {Col("Stress_Detection")}))
    ELSE Returned(Drop(df, {Col("Stress_Detection")}))

ScaleStep(md, nc, df) ==
    ScaleNumerics(md, Filter(nc, {c.f : c \in {x \in Columns(df) : x.c = <<>>}}), df)

\* preprocess_input of the MongoDB variants (model_data is not None).
\* [raised, exc, df]: df.values with each cell's column label kept beside it.
preprocess_input(md, data) ==
    ScaleStep(md,
              IF "numeric_cols" \in md.keys THEN md.numeric_cols ELSE numeric_cols,
              EncodeCategoricals(md,
                                 IF "cat_cols" \in md.keys THEN md.cat_cols ELSE cat_cols,
                                 ConvertTimes(DataFrame(data))))

\* le.transform([v])[0] when v is in le.classes_, else the default 0.
LabelCode(classes, v) ==
    IF v.t = "str" /\ v.s \in Range(classes) THEN IndexOf(classes, v.s) - 1 ELSE 0

\* for col in categorical_cols: the columns with a label encoder are replaced
\* by their codes.
LabelEncode(md, df) ==
    [i \in 1..Len(df) |->
       IF df[i].col.f \in Range(categorical_cols) /\ md.le_classes[df[i].col.f] # <<>>
       THEN [df[i] EXCEPT !.val = Num(LabelCode(md.le_classes[df[i].col.f], @))]
       ELSE df[i]]

\* df[numerical_cols] = scaler.transform(...); return df[features].values
ScaleAndSelect(md, data, df) ==
    IF \E c \in Range(numerical_cols) : ~HasKey(data, c) THEN Raised("KeyError")
    ELSE IF ScalerRaises(md, df, numerical_cols) THEN Raised("ValueError")
    ELSE IF \E f \in Range(features) : ~HasKey(data, f) THEN Raised("KeyError")
    ELSE Returned([i \in 1..Len(features) |->
                     [col |-> Col(features[i]),
                      val |-> IF features[i] \in Range(numerical_cols)
                              THEN Scaled(md, features[i], Cell(df, Col(features[i])))
                              ELSE Cell(df, Col(features[i]))]])

\* preprocess_input of the SQLite variant (model_data is not None).
sqlite_preprocess_input(md, data) ==
    IF "label_encoders" \notin md.keys THEN Raised("KeyError")
    ELSE IF \E c \in Range(categorical_cols) : md.le_classes[c] # <<>> /\ ~HasKey(data, c)
         THEN Raised("KeyError")
    ELSE ScaleAndSelect(md, data, LabelEncode(md, DataFrame(data)))

\* processed_input = preprocess_input(data) in the variant that is running.
run_preprocess_input(var, md, data) ==
    IF var = "sqlite" THEN sqlite_preprocess_input(md, data)
    ELSE preprocess_input(md, data)

\* model.predict(X) raises ValueError on a wrong number of columns and on a
\* string cell, whatever the fitted estimator.
PredictRaises(md, df) ==
    \/ Len(df) # md.n_features_in
    \/ \E i \in 1..Len(df) : df[i].val.t = "str"

\* A nan cell: LogisticRegression and SVC raise ValueError on it, a random
\* forest may accept it; which estimator was saved depends on the data.
HasNaN(df) == \E i \in 1..Len(df) : df[i].val.t \in {"nan", "null"}

\* model_data['label_encoders']['Stress_Detection'].inverse_transform([code])[0]
inverse_transform(md, code) ==
    IF "label_encoders" \notin md.keys THEN [raised |-> TRUE, exc |-> "KeyError", label |-> ""]
    ELSE IF code + 1 \in 1..Len(md.le_target)
         THEN [raised |-> FALSE, exc |-> "", label |-> md.le_target[code + 1]]
         ELSE [raised |-> TRUE, exc |-> "ValueError", label |-> ""]

\* if user_id: a non-empty string is truthy.
Truthy(v) == v.t = "str" /\ v.s # <<>>

\* probabilities = None.
NoProba == [l \in {"High", "Low", "Medium"} |-> -1]

\* model.classes_: the class codes seen in fit, ascending.
classes_(md) ==
    CHOOSE q \in [1..Cardinality(md.classes) -> md.classes] :
        \A i, j \in 1..Cardinality(md.classes) : i < j => q[i] < q[j]

\* The probabilities dict, each label with the class code whose probability it
\* is given: proba[i] is the probability of model.classes_[i].
predict_proba_labels(md) ==
    [l \in {"High", "Low", "Medium"} |->
       classes_(md)[IF l = "High" THEN 1 ELSE IF l = "Low" THEN 2 ELSE 3]]

\* The history record written at the top of the handler: a call that fails
\* later has already inserted it.
Failed_SavesFirst(data, pre, predicted, code, e) ==
    [op |-> "predict", data |-> data, loaded |-> TRUE,
     pre_ok |-> ~pre.raised, df |-> pre.df, predicted |-> predicted, code |-> code,
     status |-> 500, error |-> e, stress_level |-> "",
     saved |-> HasKey(data, "user_id") /\ Truthy(Get(data, "user_id")),
     probabilities |-> NoProba, history |-> <<>>]

\* The response fields of a failing call: the except branch answers 500.
Failed(data, pre, predicted, code, e) ==
    [op |-> "predict", data |-> data, loaded |-> TRUE,
     pre_ok |-> ~pre.raised, df |-> pre.df, predicted |-> predicted, code |-> code,
     status |-> 500, error |-> e, stress_level |-> "", saved |-> FALSE,
     probabilities |-> NoProba, history |-> <<>>]

\* The call from the decoding of the class code on, with the probabilities
\* dict built before it.
Decoded(data, pre, code, proba, dec) ==
    IF dec.raised THEN Failed(data, pre, TRUE, code, dec.exc)
    ELSE [Failed(data, pre, TRUE, code, "") EXCEPT
            !.status = 200, !.stress_level = dec.label,
            !.probabilities = proba,
            !.saved = HasKey(data, "user_id") /\ Truthy(Get(data, "user_id"))]

\* The call from the classifier on, given what preprocess_input returned.
Classified(md, data, pre) ==
    IF pre.raised THEN {Failed(data, pre, FALSE, -1, pre.exc)}
    ELSE IF PredictRaises(md, pre.df) THEN {Failed(data, pre, FALSE, -1, "ValueError")}
    ELSE (IF HasNaN(pre.df) THEN {Failed(data, pre, FALSE, -1, "ValueError")} ELSE {})
           \cup {IF Cardinality(md.classes) < 3
                 THEN Failed(data, pre, TRUE, code, "IndexError")
                 ELSE Decoded(data, pre, code, predict_proba_labels(md),
                              inverse_transform(md, code)) :
                   code \in md.classes}

\* The possible outcomes of one predict_stress call on a loaded model: one per
\* class the classifier may return, unless a step before it raises.
predict_stress(var, md, data) == Classified(md, data, run_preprocess_input(var, md, data))

\* ----------------------------------------------------------------- requests
Reverse(q) == [i \in 1..Len(q) |-> q[Len(q) + 1 - i]]

SetKey(data, k, v) ==
    [i \in 1..Len(data) |-> IF data[i].k = k THEN [k |-> k, v |-> v] ELSE data[i]]

DropKey(data, k) == SelectSeq(data, LAMBDA x : x.k # k)

\* A complete record: every feature, in data-set order, categorical values in
\* every fitted vocabulary, both times valid clock strings.
BaseRecord ==
    [i \in 1..Len(features) |->
       [k |-> features[i],
        v |-> IF features[i] \in Range(cat_cols) THEN Str(<<"a">>)
              ELSE IF features[i] = "Wake_Up_Time" THEN Str(FormatClock(7, 0, "AM"))
              ELSE IF features[i] = "Bed_Time" THEN Str(FormatClock(11, 30, "PM"))
              ELSE Num(10 * i + 3)]]

\* The ways a request body departs from the complete record.
Mods ==
    {[kind |-> "none", f |-> ""], [kind |-> "target", f |-> "Stress_Detection"]}
      \cup {[kind |-> "drop", f |-> f] : f \in Range(features)}
      \cup {[kind |-> k, f |-> f] : k \in {"unseen", "second"}, f \in Range(cat_cols)}
      \cup {[kind |-> k, f |-> "Wake_Up_Time"] : k \in {"banana", "empty", "null"}}

ApplyMod(data, m) ==
    CASE m.kind = "none" -> data
      [] m.kind = "target" -> Append(data, [k |-> m.f, v |-> Str(<<"z">>)])
      [] m.kind = "drop" -> DropKey(data, m.f)
      [] m.kind = "unseen" -> SetKey(data, m.f, Str(<<"z">>))
      [] m.kind = "second" -> SetKey(data, m.f, Str(<<"b">>))
      [] m.kind = "banana" -> SetKey(data, m.f, Str(<<"b", "a", "n", "a", "n", "a">>))
      [] m.kind = "empty" -> SetKey(data, m.f, Str(<<>>))
      [] m.kind = "null" -> SetKey(data, m.f, None)

\* user_id of the request body: absent, empty, or an id.
UserIds == {Unset, Str(<<>>), Str(<<"u">>)}

\* request.json of /api/predict.
Requests ==
    {LET d1 == ApplyMod(BaseRecord, m)
         d2 == IF rev THEN Reverse(d1) ELSE d1
     IN  IF uid = Unset THEN d2 ELSE Append(d2, [k |-> "user_id", v |-> uid])
       : m \in Mods, rev \in BOOLEAN, uid \in UserIds}

\* ------------------------------------------------------------ state machine
Idle ==
    [op |-> "none", data |-> <<>>, loaded |-> FALSE, pre_ok |-> FALSE, df |-> <<>>,
     predicted |-> FALSE, code |-> -1, status |-> 0, error |-> "",
     stress_level |-> "", saved |-> FALSE, probabilities |-> NoProba, history |-> <<>>]

\* A pickled dict that lacks the scaler: joblib.load returns it as it is.
incomplete_bundle(fit) ==
    [save_model(fit) EXCEPT !.kind = "incomplete", !.keys = @ \ {"scaler"}]

\* What is at MODEL_PATH when the process starts: nothing, a file joblib
\* cannot load, the bundle of save_model, a label-encoder bundle, or a dict
\* with a key missing.
BundleFiles ==
    {[NoModel EXCEPT !.kind = k] : k \in {"missing", "corrupt"}}
      \cup {incomplete_bundle(preprocess_data(load_data(1)))}
      \cup {save_model(preprocess_data(load_data(nv))) : nv \in 1..MaxVocab}
      \cup {label_bundle(load_data(nv)) : nv \in 1..MaxVocab}

\* No data set read, no training script run.
NoData == [Low |-> 0, Medium |-> 0, High |-> 0]

NotRun == [script |-> "none", outcome |-> "none", counts |-> NoData]

\* No request in flight on a database connection.
NoConns == <<>>

\* gemini_model = None: the module-level value before init_gemini().
NoGemini == "None"

Init ==
    /\ variant \in {"sqlite", "mongodb"}
    /\ bundle_file \in BundleFiles
    /\ model_data = NoModel
    /\ pc = "startup"
    /\ stress_history = <<>>
    /\ last = Idle
    /\ t_in = Unset
    /\ t_serve = Unset
    /\ t_train = Unset
    /\ users = {}
    /\ mood_journal = <<>>
    /\ dataset = NoData
    /\ fitted = NotRun
    /\ conns = NoConns
    /\ gemini_model = NoGemini

\* The load put off to a background thread: serving starts with model_data
\* still None.
LoadModel_Deferred ==
    /\ pc = "startup"
    /\ pc' = "serving"
    /\ UNCHANGED <<variant, bundle_file, model_data, stress_history, last, t_in, t_serve,
                   t_train, users, mood_journal, dataset, fitted, conns, gemini_model>>

\* model_data after try: load_model() except: pass. No file: the assignment
\* is skipped; joblib.load raises: model_data stays None; else model_data
\* is whatever the file holds.
load_model(file) == IF file.kind \in {"missing", "corrupt"} THEN NoModel ELSE file

\* Module start-up: try: load_model() except: pass.
LoadModel ==
    /\ pc = "startup"
    /\ model_data' = load_model(bundle_file)
    /\ pc' = "serving"
    /\ UNCHANGED <<variant, bundle_file, stress_history, last, t_in, t_serve, t_train,
                 users, mood_journal, dataset, fitted, conns, gemini_model>>

\* replace_one({'user_id': ...}, doc, upsert=True): the user's earlier records
\* give way to the new one.
replace_one_upsert(coll, doc) ==
    SelectSeq(coll, LAMBDA h : h.user_id # doc.user_id) \o <<doc>>

\* collection.insert_one(doc) / INSERT INTO: the record is added after the
\* ones already there.
insert_one(coll, doc) == Append(coll, doc)

\* A record that keeps the level and the date and not whose they are.
anonymous_doc(coll, user_id, stress_level) ==
    [user_id |-> <<>>, stress_level |-> stress_level,
     prediction_date |-> Len(coll) + 1]

\* The stress_history record of a prediction. prediction_date is
\* datetime.now(), later than that of every record inserted before: the
\* position of the insert stands for it.
stress_doc(coll, user_id, stress_level) ==
    [user_id |-> user_id, stress_level |-> stress_level,
     prediction_date |-> Len(coll) + 1]

\* The handler of POST /api/predict: its response and its database write.
PredictRequest(data) ==
    /\ pc = "serving"
    /\ pc' = "responded"
    /\ IF model_data.kind = "none"
       THEN /\ last' = [Idle EXCEPT !.op = "predict", !.data = data, !.status = 500,
                                    !.error = "Model not loaded"]
            /\ UNCHANGED stress_history
       ELSE \E r \in predict_stress(variant, model_data, data) :
              /\ r.saved => Len(stress_history) < MaxHistory
              /\ last' = r
              /\ stress_history' =
                   IF r.saved
                   THEN insert_one(stress_history,
                                   stress_doc(stress_history, Get(data, "user_id").s,
                                              r.stress_level))
                   ELSE stress_history

\* The handler doing numeric_cols.extend(time_cols), as preprocess_data does,
\* on the list the bundle holds.
Predict_ExtendsNumericCols(data) ==
    /\ PredictRequest(data)
    /\ model_data' = [model_data EXCEPT !.numeric_cols = @ \o time_cols]
    /\ UNCHANGED <<variant, bundle_file, t_in, t_serve, t_train,
                   users, mood_journal, dataset, fitted, conns, gemini_model>>

\* POST /api/predict.
Predict(data) ==
    /\ PredictRequest(data)
    /\ UNCHANGED <<variant, bundle_file, model_data, t_in, t_serve, t_train,
                   users, mood_journal, dataset, fitted, conns, gemini_model>>

\* return jsonify(...): the response leaves and the next request can come.
Respond ==
    /\ pc = "responded"
    /\ pc' = "serving"
    /\ last' = Idle
    /\ UNCHANGED <<variant, bundle_file, model_data, stress_history, t_in, t_serve, t_train,
                 users, mood_journal, dataset, fitted, conns, gemini_model>>

Next ==
    \/ LoadModel
    \/ \E data \in Requests : Predict(data)
    \/ Respond

Spec == Init /\ [][Next]_vars

\* ------------------------------------------------- the other API handlers
\* Cap on the number of mood_journal records.
MaxJournal == 1

\* Request fields: "" stands for an absent or empty one (both are falsy).
Names == {<<>>, <<"n">>}

Emails == {<<>>, <<"e">>}

Passwords == {<<>>, <<"p">>, <<"q">>}

Moods == {<<>>, <<"m">>}

\* str(uuid.uuid4())
Uuids == {<<"u">>, <<"v">>}

\* The <user_id> of GET /api/history/<user_id>.
PathUserIds == {<<"u">>, <<"x">>}

\* werkzeug.security: the stored hash is not the password; check compares a
\* password against it.
generate_password_hash(password) == <<"#">> \o password

\* A check that lets every password through.
accept_any(hash, password) == TRUE

\* check_password_hash(user['password'], data['password'])
check_password_hash(hash, password) == hash = generate_password_hash(password)

Response(op, status, error) ==
    [Idle EXCEPT !.op = op, !.status = status, !.error = error]

\* The JSON body of a request, its fields in the order given.
Body(keys, values) == [i \in 1..Len(keys) |-> [k |-> keys[i], v |-> Str(values[i])]]

\* The response to a request with that body.
ResponseTo(op, body, status, error) == [Response(op, status, error) EXCEPT !.data = body]

\* The users table after register has inserted its row.
insert_user(us, id, name, email, password) ==
    us \cup {[user_id |-> id, name |-> name, email |-> email,
              password |-> generate_password_hash(password)]}

\* A register with no look-up of the email before its insert.
Register_NoEmailCheck(name, email, password) ==
    /\ pc = "serving"
    /\ pc' = "responded"
    /\ IF name = <<>> \/ email = <<>> \/ password = <<>>
       THEN /\ last' = ResponseTo("register",
                                  Body(<<"name", "email", "password">>,
                                       <<name, email, password>>),
                                  400, "Name, email and password are required")
            /\ UNCHANGED users
       ELSE \E id \in Uuids \ {u.user_id : u \in users} :
              /\ users' = insert_user(users, id, name, email, password)
              /\ last' = [user_id |-> id]
                           @@ ResponseTo("register",
                                         Body(<<"name", "email", "password">>,
                                              <<name, email, password>>),
                                         201, "")
    /\ UNCHANGED <<variant, bundle_file, model_data, stress_history, t_in, t_serve, t_train,
                   mood_journal, dataset, fitted, conns, gemini_model>>

\* POST /api/register. The 201 response carries the new user_id.
Register(name, email, password) ==
    /\ pc = "serving"
    /\ pc' = "responded"
    /\ IF name = <<>> \/ email = <<>> \/ password = <<>>
       THEN /\ last' = ResponseTo("register",
                                  Body(<<"name", "email", "password">>,
                                       <<name, email, password>>),
                                  400, "Name, email and password are required")
            /\ UNCHANGED users
       ELSE IF \E u \in users : u.email = email
       THEN /\ last' = ResponseTo("register",
                                  Body(<<"name", "email", "password">>,
                                       <<name, email, password>>),
                                  400, "Email already registered")
            /\ UNCHANGED users
       ELSE \E id \in Uuids \ {u.user_id : u \in users} :
              /\ users' = insert_user(users, id, name, email, password)
              /\ last' = [user_id |-> id]
                           @@ ResponseTo("register",
                                         Body(<<"name", "email", "password">>,
                                              <<name, email, password>>),
                                         201, "")
    /\ UNCHANGED <<variant, bundle_file, model_data, stress_history, t_in, t_serve, t_train,
                   mood_journal, dataset, fitted, conns, gemini_model>>

\* c.fetchone() / find_one({'email': ...}): the user with that email, if any.
find_user(us, email) ==
    IF \E u \in us : u.email = email
    THEN {CHOOSE u \in us : u.email = email}
    ELSE {}

\* What login answers once email and password are known to be present.
login_response(found, body, password) ==
    IF found = {} \/ \E u \in found : ~check_password_hash(u.password, password)
    THEN ResponseTo("login", body, 401, "Invalid email or password")
    ELSE LET user == CHOOSE u \in found : TRUE
         IN  [user_id |-> user.user_id, name |-> user.name, email |-> user.email]
               @@ ResponseTo("login", body, 200, "")

\* POST /api/login.
Login(email, password) ==
    /\ pc = "serving"
    /\ pc' = "responded"
    /\ last' = IF email = <<>> \/ password = <<>>
               THEN ResponseTo("login", Body(<<"email", "password">>, <<email, password>>),
                               400, "Email and password are required")
               ELSE login_response(find_user(users, email),
                                   Body(<<"email", "password">>, <<email, password>>),
                                   password)
    /\ UNCHANGED <<variant, bundle_file, model_data, stress_history, t_in, t_serve, t_train,
                   users, mood_journal, dataset, fitted, conns, gemini_model>>

\* POST /api/journal.
AddJournal(user_id, mood) ==
    /\ pc = "serving"
    /\ pc' = "responded"
    /\ IF user_id = <<>> \/ mood = <<>>
       THEN /\ last' = Response("journal", 400, "User ID and mood are required")
            /\ UNCHANGED mood_journal
       ELSE /\ Len(mood_journal) < MaxJournal
            /\ mood_journal' =
                 insert_one(mood_journal,
                            [user_id |-> user_id, mood |-> mood,
                             entry_date |-> Len(mood_journal) + 1])
            /\ last' = Response("journal", 201, "")
    /\ UNCHANGED <<variant, bundle_file, model_data, stress_history, t_in, t_serve, t_train,
                   users, dataset, fitted, conns, gemini_model>>

\* Every user's records, latest first.
find_everyone(coll, user_id) == Reverse(coll)

\* The user's records, latest first: find({'user_id': ...}).sort('prediction_date', -1)
\* / ORDER BY prediction_date DESC. The handler gets copies of the records.
find_history(coll, user_id) == Reverse(SelectSeq(coll, LAMBDA h : h.user_id = user_id))

\* h['prediction_date'].isoformat()
isoformat(d) == IntToChars(d)

\* The 'history' list of get_stress_history: the copies of the records are
\* edited for JSON.
history_body(history) ==
    [i \in 1..Len(history) |-> [history[i] EXCEPT !.prediction_date = isoformat(@)]]

\* GET /api/history/<user_id>.
GetHistory(user_id) ==
    /\ pc = "serving"
    /\ pc' = "responded"
    /\ last' = [user_id |-> user_id]
                 @@ [Response("history", 200, "") EXCEPT
                       !.history = history_body(find_history(stress_history, user_id))]
    /\ UNCHANGED <<variant, bundle_file, model_data, stress_history, t_in, t_serve, t_train,
                   users, mood_journal, dataset, fitted, conns, gemini_model>>

\* The /api/predict bodies sent between the other requests.
ApiMods ==
    {[kind |-> "none", f |-> ""], [kind |-> "drop", f |-> "Gender"],
     [kind |-> "unseen", f |-> "Gender"], [kind |-> "banana", f |-> "Wake_Up_Time"]}

ApiRequests ==
    {IF uid = Unset THEN ApplyMod(BaseRecord, m)
     ELSE Append(ApplyMod(BaseRecord, m), [k |-> "user_id", v |-> uid]) :
       m \in ApiMods, uid \in {Unset, Str(<<"u">>)}}

NextApi ==
    \/ LoadModel
    \/ \E data \in ApiRequests : Predict(data)
    \/ \E name \in Names, email \in Emails, password \in Passwords :
         Register(name, email, password)
    \/ \E email \in Emails, password \in Passwords : Login(email, password)
    \/ \E user_id \in {<<>>, <<"u">>}, mood \in Moods : AddJournal(user_id, mood)
    \/ \E user_id \in PathUserIds : GetHistory(user_id)
    \/ Respond

SpecApi == Init /\ [][NextApi]_vars

\* ------------------------------------------------------- accounts on their own
\* The emails of the register and login requests.
AccountEmails == {<<>>, <<"e">>, <<"f">>}

\* The server is up with no model file and an empty database.
InitUsers ==
    /\ variant \in {"sqlite", "mongodb"}
    /\ bundle_file = [NoModel EXCEPT !.kind = "missing"]
    /\ model_data = load_model(bundle_file)
    /\ pc = "serving"
    /\ stress_history = <<>>
    /\ last = Idle
    /\ t_in = Unset
    /\ t_serve = Unset
    /\ t_train = Unset
    /\ users = {}
    /\ mood_journal = <<>>
    /\ dataset = NoData
    /\ fitted = NotRun
    /\ conns = NoConns
    /\ gemini_model = NoGemini

NextUsers ==
    \/ \E name \in Names, email \in AccountEmails, password \in Passwords :
         Register(name, email, password)
    \/ \E email \in AccountEmails, password \in Passwords : Login(email, password)
    \/ \E user_id \in {<<>>, <<"u">>}, mood \in Moods : AddJournal(user_id, mood)
    \/ Respond

SpecUsers == InitUsers /\ [][NextUsers]_vars

\* ------------------------------------------- time normalization on its own
TimeHours == {0, 1, 7, 11, 12, 13, 23, 24}

TimeMinutes == {0, 30, 59, 60}

\* The values a time field takes: clock strings, "banana", "", None, nan.
TimeInputs ==
    {Str(FormatClock(h, m, sfx)) : h \in TimeHours, m \in TimeMinutes, sfx \in {"", "AM", "PM"}}
      \cup {Str(<<"b", "a", "n", "a", "n", "a">>), Str(<<>>), None, NaN}

InitTime ==
    /\ variant = "mongodb"
    /\ bundle_file = [NoModel EXCEPT !.kind = "missing"]
    /\ model_data = NoModel
    /\ pc = "time"
    /\ stress_history = <<>>
    /\ last = Idle
    /\ t_in \in TimeInputs
    /\ t_serve = Unset
    /\ t_train = Unset
    /\ users = {}
    /\ mood_journal = <<>>
    /\ dataset = NoData
    /\ fitted = NotRun
    /\ conns = NoConns
    /\ gemini_model = NoGemini

\* The serving code converts t_in.
ServeTime ==
    /\ pc = "time"
    /\ t_serve = Unset
    /\ t_serve' = time_to_minutes(t_in)
    /\ UNCHANGED <<variant, bundle_file, model_data, pc, stress_history, last, t_in, t_train,
                 users, mood_journal, dataset, fitted, conns, gemini_model>>

\* The training code converts t_in.
TrainTime ==
    /\ pc = "time"
    /\ t_train = Unset
    /\ t_train' = train_time_to_minutes(t_in)
    /\ UNCHANGED <<variant, bundle_file, model_data, pc, stress_history, last, t_in, t_serve,
                 users, mood_journal, dataset, fitted, conns, gemini_model>>

NextTime == ServeTime \/ TrainTime

SpecTime == InitTime /\ [][NextTime]_vars

\* ------------------------------------------------- the training scripts
\* Rows per class of the CSV, at most.
MaxClassRows == 6

\* The CSV by its number of rows per class.
Datasets ==
    {[Low |-> a, Medium |-> b, High |-> c] :
       a \in 1..MaxClassRows, b \in 1..MaxClassRows, c \in 1..MaxClassRows}

Total(counts) == counts.Low + counts.Medium + counts.High

\* train_test_split(test_size=0.2): n_test = ceil(0.2 n), n_train = floor(0.8 n).
n_test(n) == (n + 4) \div 5

n_train(n) == (4 * n) \div 5

Fitted(script, counts) == [script |-> script, outcome |-> "fitted", counts |-> counts]

Crashed(script) == [script |-> script, outcome |-> "raised", counts |-> NoData]

\* The class counts n rows drawn from `counts` can have.
Draws(counts, n) ==
    {d \in [Low : 0..counts.Low, Medium : 0..counts.Medium, High : 0..counts.High] :
       Total(d) = n}

\* train_test_split(..., stratify=y) on m rows per class: it raises when the
\* train or the test part is smaller than the number of classes; the train
\* part takes floor(n_train / 3) rows of each class and one more of as many
\* classes as remain.
stratified_split(m) ==
    IF n_test(3 * m) < 3 \/ n_train(3 * m) < 3 THEN {}
    ELSE {d \in Draws([Low |-> m, Medium |-> m, High |-> m], n_train(3 * m)) :
            \A l \in {"Low", "Medium", "High"} :
              d[l] \in {n_train(3 * m) \div 3, (n_train(3 * m) \div 3) + 1}}

\* stress_model.py: preprocess_data downsamples every class to the smallest
\* one; __main__ splits the balanced rows and train_models fits on X_train.
stress_model_fit(counts) ==
    IF stratified_split(Min3(counts.Low, counts.Medium, counts.High)) = {}
    THEN {Crashed("stress_model")}
    ELSE {Fitted("stress_model", d) :
            d \in stratified_split(Min3(counts.Low, counts.Medium, counts.High))}

\* run_projectml.py: CELL 4 resamples Medium and High to len(df_low) without
\* replacement (ValueError when a class has fewer rows); CELL 5 reads the CSV
\* again, CELL 11 splits those rows and CELL 12 fits on X_train (a fit on a
\* single class raises).
run_projectml_fit(counts) ==
    IF counts.Low > counts.Medium \/ counts.Low > counts.High
    THEN {Crashed("run_projectml")}
    ELSE {IF Cardinality({l \in {"Low", "Medium", "High"} : d[l] > 0}) < 2
          THEN Crashed("run_projectml") ELSE Fitted("run_projectml", d) :
            d \in Draws(counts, n_train(Total(counts)))}

InitTrain ==
    /\ variant = "mongodb"
    /\ bundle_file = [NoModel EXCEPT !.kind = "missing"]
    /\ model_data = NoModel
    /\ pc = "train"
    /\ stress_history = <<>>
    /\ last = Idle
    /\ t_in = Unset
    /\ t_serve = Unset
    /\ t_train = Unset
    /\ users = {}
    /\ mood_journal = <<>>
    /\ dataset \in Datasets
    /\ fitted = NotRun
    /\ conns = NoConns
    /\ gemini_model = NoGemini

\* python stress_model.py
TrainStressModel ==
    /\ pc = "train"
    /\ fitted = NotRun
    /\ fitted' \in stress_model_fit(dataset)
    /\ UNCHANGED <<variant, bundle_file, model_data, pc, stress_history, last,
                   t_in, t_serve, t_train, users, mood_journal, dataset,
                   conns, gemini_model>>

\* python run_projectml.py
RunProjectML ==
    /\ pc = "train"
    /\ fitted = NotRun
    /\ fitted' \in run_projectml_fit(dataset)
    /\ UNCHANGED <<variant, bundle_file, model_data, pc, stress_history, last,
                   t_in, t_serve, t_train, users, mood_journal, dataset,
                   conns, gemini_model>>

NextTrain == TrainStressModel \/ RunProjectML

SpecTrain == InitTrain /\ [][NextTrain]_vars

\* ------------------------------------- concurrent requests on the database
\* Requests served at the same time (Flask serves each in its own thread).
MaxConns == 2

\* A request slot before its request arrives.
FreeConn ==
    [op |-> "none", pc |-> "free", req |-> <<>>, row |-> <<>>, status |-> 0, error |-> ""]

\* The three tables / collections.
Db == [users |-> users, stress_history |-> stress_history, mood_journal |-> mood_journal]

\* str(uuid.uuid4()) in the request served on slot p: no two calls return
\* the same id.
uuid4(p) == <<"u">> \o IntToChars(p)

\* The handler returns: the response leaves with this status.
Answer(c, status, error) == [c EXCEPT !.pc = "done", !.status = status, !.error = error]

\* conn.close() with no commit before it: the pending row is rolled back.
close_uncommitted(db, row) == db

\* conn.commit() / the write of insert_one: the row is in its table.
commit(db, row) ==
    IF row.table = "users" THEN [db EXCEPT !.users = @ \cup {row.doc}]
    ELSE IF row.table = "stress_history"
    THEN [db EXCEPT !.stress_history = insert_one(@, row.doc)]
    ELSE [db EXCEPT !.mood_journal = insert_one(@, row.doc)]

\* A users table with no constraint on email.
no_constraint(db, row) == FALSE

\* email TEXT UNIQUE NOT NULL / create_index('email', unique=True): the
\* insert of a second user with a stored email is refused.
unique_violation(db, row) ==
    row.table = "users" /\ \E u \in db.users : u.email = row.doc.email

\* The document a handler inserts, made from the request and the time of the
\* insert (the position in the table stands for datetime.now()).
row_of(db, c, p) ==
    IF c.op = "register"
    THEN [table |-> "users",
          doc |-> [user_id |-> uuid4(p), name |-> c.req.name, email |-> c.req.email,
                   password |-> generate_password_hash(c.req.password)]]
    ELSE IF c.op = "predict"
    THEN [table |-> "stress_history",
          doc |-> stress_doc(db.stress_history, c.req.user_id, c.req.stress_level)]
    ELSE [table |-> "mood_journal",
          doc |-> [user_id |-> c.req.user_id, mood |-> c.req.mood,
                   entry_date |-> Len(db.mood_journal) + 1]]

\* Another connection holds the SQLite write lock: it has executed its INSERT
\* and not yet committed.
locked(cs, p) == \E q \in DOMAIN cs : q # p /\ cs[q].pc = "commit"

\* POST /api/register up to the first database call.
RegisterBegin(p, name, email, password) ==
    /\ conns[p].pc = "free"
    /\ conns' =
         [conns EXCEPT ![p] =
            IF name = <<>> \/ email = <<>> \/ password = <<>>
            THEN Answer([@ EXCEPT !.op = "register"], 400,
                        "Name, email and password are required")
            ELSE [@ EXCEPT !.op = "register", !.pc = "select",
                           !.req = [name |-> name, email |-> email,
                                    password |-> password]]]
    /\ UNCHANGED <<variant, bundle_file, model_data, pc, stress_history, last,
                   t_in, t_serve, t_train, users, mood_journal, dataset, fitted,
                   gemini_model>>

\* SELECT id FROM users WHERE email = ? / find_one({'email': ...}): it sees
\* the committed rows.
RegisterSelect(p) ==
    /\ conns[p].pc = "select"
    /\ conns' =
         [conns EXCEPT ![p] =
            IF \E u \in users : u.email = @.req.email
            THEN Answer(@, 400, "Email already registered")
            ELSE [@ EXCEPT !.pc = "insert"]]
    /\ UNCHANGED <<variant, bundle_file, model_data, pc, stress_history, last,
                   t_in, t_serve, t_train, users, mood_journal, dataset, fitted,
                   gemini_model>>

\* POST /api/journal up to the first database call.
JournalBegin(p, user_id, mood) ==
    /\ conns[p].pc = "free"
    /\ conns' =
         [conns EXCEPT ![p] =
            IF user_id = <<>> \/ mood = <<>>
            THEN Answer([@ EXCEPT !.op = "journal"], 400, "User ID and mood are required")
            ELSE [@ EXCEPT !.op = "journal", !.pc = "insert",
                           !.req = [user_id |-> user_id, mood |-> mood]]]
    /\ UNCHANGED <<variant, bundle_file, model_data, pc, stress_history, last,
                   t_in, t_serve, t_train, users, mood_journal, dataset, fitted,
                   gemini_model>>

\* The slot after predict_stress has computed outcome r: a call that saves
\* goes on to the database, any other returns.
predict_begin(c, r) ==
    IF r.saved
    THEN [c EXCEPT !.op = "predict", !.pc = "insert",
                   !.req = [user_id |-> Get(r.data, "user_id").s,
                            stress_level |-> r.stress_level]]
    ELSE Answer([c EXCEPT !.op = "predict"], r.status, r.error)

\* POST /api/predict up to the first database call.
PredictBegin(p, data) ==
    /\ conns[p].pc = "free"
    /\ IF model_data.kind = "none"
       THEN conns' = [conns EXCEPT ![p] =
                        Answer([@ EXCEPT !.op = "predict"], 500, "Model not loaded")]
       ELSE \E r \in predict_stress(variant, model_data, data) :
              conns' = [conns EXCEPT ![p] = predict_begin(@, r)]
    /\ UNCHANGED <<variant, bundle_file, model_data, pc, stress_history, last,
                   t_in, t_serve, t_train, users, mood_journal, dataset, fitted,
                   gemini_model>>

\* The state of slot p and of the tables after c.execute('INSERT ...') or
\* insert_one(doc). SQLite: a refused row raises IntegrityError, an accepted
\* one is pending until the commit. MongoDB: a refused document raises
\* DuplicateKeyError, an accepted one is written at once.
insert(var, db, c, row) ==
    IF unique_violation(db, row)
    THEN [conn |-> Answer(c, 500, IF var = "sqlite" THEN "IntegrityError"
                                  ELSE "DuplicateKeyError"),
          db |-> db]
    ELSE IF var = "sqlite"
    THEN [conn |-> [c EXCEPT !.pc = "commit", !.row = row], db |-> db]
    ELSE [conn |-> [c EXCEPT !.pc = "return", !.row = row], db |-> commit(db, row)]

\* The tables take the values of db.
Store(db) ==
    /\ users' = db.users
    /\ stress_history' = db.stress_history
    /\ mood_journal' = db.mood_journal

\* c.execute('INSERT ...') / insert_one(doc) in the request on slot p. The
\* SQLite INSERT waits while another connection holds the write lock.
Insert(p) ==
    /\ conns[p].pc = "insert"
    /\ variant = "sqlite" => ~locked(conns, p)
    /\ conns' = [conns EXCEPT
                   ![p] = insert(variant, Db, conns[p], row_of(Db, conns[p], p)).conn]
    /\ Store(insert(variant, Db, conns[p], row_of(Db, conns[p], p)).db)
    /\ UNCHANGED <<variant, bundle_file, model_data, pc, last,
                   t_in, t_serve, t_train, dataset, fitted, gemini_model>>

\* The wait for the write lock runs out (timeout=5.0 of sqlite3.connect):
\* sqlite3.OperationalError, database is locked.
InsertLocked(p) ==
    /\ conns[p].pc = "insert"
    /\ variant = "sqlite"
    /\ locked(conns, p)
    /\ conns' = [conns EXCEPT ![p] = Answer(@, 500, "OperationalError")]
    /\ UNCHANGED <<variant, bundle_file, model_data, pc, stress_history, last,
                   t_in, t_serve, t_train, users, mood_journal, dataset, fitted,
                   gemini_model>>

\* conn.commit(); conn.close()
Commit(p) ==
    /\ conns[p].pc = "commit"
    /\ conns' = [conns EXCEPT ![p].pc = "return"]
    /\ Store(commit(Db, conns[p].row))
    /\ UNCHANGED <<variant, bundle_file, model_data, pc, last,
                   t_in, t_serve, t_train, dataset, fitted, gemini_model>>

\* return jsonify(...), 201 for register and journal, 200 for predict.
Return(p) ==
    /\ conns[p].pc = "return"
    /\ conns' = [conns EXCEPT ![p] =
                   Answer(@, IF @.op = "predict" THEN 200 ELSE 201, "")]
    /\ UNCHANGED <<variant, bundle_file, model_data, pc, stress_history, last,
                   t_in, t_serve, t_train, users, mood_journal, dataset, fitted,
                   gemini_model>>

\* What is at MODEL_PATH when the server of the concurrent requests starts:
\* nothing, the bundle of save_model, or a label-encoder bundle.
DbBundleFiles ==
    {[NoModel EXCEPT !.kind = "missing"],
     save_model(preprocess_data(load_data(1))),
     label_bundle(load_data(1))}

\* The server is up, the model loaded as LoadModel loads it, the tables empty
\* and MaxConns requests about to arrive.
InitDb ==
    /\ variant \in {"sqlite", "mongodb"}
    /\ bundle_file \in DbBundleFiles
    /\ model_data = load_model(bundle_file)
    /\ pc = "serving"
    /\ stress_history = <<>>
    /\ last = Idle
    /\ t_in = Unset
    /\ t_serve = Unset
    /\ t_train = Unset
    /\ users = {}
    /\ mood_journal = <<>>
    /\ dataset = NoData
    /\ fitted = NotRun
    /\ conns = [p \in 1..MaxConns |-> FreeConn]
    /\ gemini_model = NoGemini

\* The /api/predict bodies of the concurrent requests.
DbRequests ==
    {BaseRecord, Append(BaseRecord, [k |-> "user_id", v |-> Str(<<"u">>)])}

NextDb ==
    \/ \E p \in 1..MaxConns, name \in Names, email \in Emails, password \in {<<>>, <<"p">>} :
         RegisterBegin(p, name, email, password)
    \/ \E p \in 1..MaxConns : RegisterSelect(p)
    \/ \E p \in 1..MaxConns, user_id \in {<<>>, <<"u">>}, mood \in Moods :
         JournalBegin(p, user_id, mood)
    \/ \E p \in 1..MaxConns, data \in DbRequests : PredictBegin(p, data)
    \/ \E p \in 1..MaxConns : Insert(p)
    \/ \E p \in 1..MaxConns : InsertLocked(p)
    \/ \E p \in 1..MaxConns : Commit(p)
    \/ \E p \in 1..MaxConns : Return(p)

SpecDb == InitDb /\ [][NextDb]_vars

\* --------------------------------------------- forecast, reports, journal
\* Cap on the stress_history records a database starts with.
MaxRecords == 13

\* Ticks of the clock between the latest insert and a report request; one
\* tick is one day.
ReportDelays == {0, 5, 7, 20, 30, 40}

\* A query with no LIMIT.
no_limit(q, n) == q

\* LIMIT n / .limit(n): the first n of the rows found.
limit(q, n) == IF Len(q) <= n THEN q ELSE SubSeq(q, 1, n)

\* The response of a handler that reads for user_id at time now.
ReadResponse(op, user_id, now, status, error, body) ==
    [user_id |-> user_id, now |-> now, body |-> body] @@ Response(op, status, error)

\* stress_scores.get(h['stress_level'], 2)
stress_scores(level) == IF level = "Low" THEN 1 ELSE IF level = "High" THEN 3 ELSE 2

\* scores = [stress_scores.get(...) for h in history]
scores_of(history) == [i \in 1..Len(history) |-> stress_scores(history[i].stress_level)]

\* trend = scores[0] - scores[-1] if len(scores) > 1 else 0
trend(scores) == IF Len(scores) > 1 THEN scores[1] - scores[Len(scores)] ELSE 0

forecast_of(t) == IF t > 0 THEN "Increasing" ELSE IF t < 0 THEN "Decreasing" ELSE "Stable"

\* 'Low' if avg_score < 1.5 else 'Medium' if avg_score < 2.5 else 'High',
\* avg_score = sum(scores) / len(scores).
average_level(scores) ==
    IF 2 * SumSeq(scores) < 3 * Len(scores) THEN "Low"
    ELSE IF 2 * SumSeq(scores) < 5 * Len(scores) THEN "Medium"
    ELSE "High"

\* The JSON of forecast_stress for the rows its query returned.
forecast_body(history) ==
    IF history = <<>> THEN [forecast |-> "Insufficient data"]
    ELSE [forecast |-> forecast_of(trend(scores_of(history))),
          average_level |-> average_level(scores_of(history)),
          data_points |-> Len(history)]

\* ... WHERE user_id = ? ORDER BY prediction_date DESC LIMIT 10
forecast_stress(coll, user_id) == forecast_body(limit(find_history(coll, user_id), 10))

\* POST /api/forecast.
Forecast(user_id) ==
    /\ pc = "serving"
    /\ pc' = "responded"
    /\ last' = IF user_id = <<>>
               THEN ReadResponse("forecast", user_id, 0, 400, "User ID required", <<>>)
               ELSE ReadResponse("forecast", user_id, 0, 200, "",
                                 forecast_stress(stress_history, user_id))
    /\ UNCHANGED <<variant, bundle_file, model_data, stress_history, t_in, t_serve, t_train,
                   users, mood_journal, dataset, fitted, conns, gemini_model>>

\* The user's records of every date.
all_time(coll, user_id, since) == SelectSeq(coll, LAMBDA h : h.user_id = user_id)

\* ... WHERE user_id = ? AND prediction_date >= ? ORDER BY prediction_date
find_since(coll, user_id, since) ==
    SelectSeq(coll, LAMBDA h : h.user_id = user_id /\ h.prediction_date >= since)

\* counts = {'Low': 0, 'Medium': 0, 'High': 0}, then one more per record.
count_levels(history) ==
    [l \in {"Low", "Medium", "High"} |->
       Cardinality({i \in 1..Len(history) : history[i].stress_level = l})]

\* max(counts, key=counts.get): the first key, in the order Low, Medium,
\* High, whose count no other exceeds.
max_key(counts) ==
    IF counts["Low"] >= counts["Medium"] /\ counts["Low"] >= counts["High"] THEN "Low"
    ELSE IF counts["Medium"] >= counts["High"] THEN "Medium"
    ELSE "High"

\* The 'data' list of a report.
report_data(history) ==
    [i \in 1..Len(history) |->
       [stress_level |-> history[i].stress_level,
        prediction_date |-> isoformat(history[i].prediction_date)]]

\* The JSON of weekly_report / monthly_report for the rows its query returned.
report_body(period, history) ==
    IF history = <<>> THEN [message |-> "No data available", data |-> <<>>]
    ELSE [period |-> period,
          total_assessments |-> Len(history),
          distribution |-> count_levels(history),
          dominant_level |-> max_key(count_levels(history)),
          data |-> report_data(history)]

\* week_ago = datetime.now() - timedelta(days=7)
weekly_report(coll, user_id, now) ==
    report_body("Weekly", find_since(coll, user_id, now - 7))

\* month_ago = datetime.now() - timedelta(days=30)
monthly_report(coll, user_id, now) ==
    report_body("Monthly", find_since(coll, user_id, now - 30))

\* GET /api/reports/weekly/<user_id>, delay ticks after the latest insert.
WeeklyReport(user_id, delay) ==
    /\ pc = "serving"
    /\ pc' = "responded"
    /\ last' = ReadResponse("weekly", user_id, Len(stress_history) + delay, 200, "",
                            weekly_report(stress_history, user_id,
                                          Len(stress_history) + delay))
    /\ UNCHANGED <<variant, bundle_file, model_data, stress_history, t_in, t_serve, t_train,
                   users, mood_journal, dataset, fitted, conns, gemini_model>>

\* GET /api/reports/monthly/<user_id>, delay ticks after the latest insert.
MonthlyReport(user_id, delay) ==
    /\ pc = "serving"
    /\ pc' = "responded"
    /\ last' = ReadResponse("monthly", user_id, Len(stress_history) + delay, 200, "",
                            monthly_report(stress_history, user_id,
                                           Len(stress_history) + delay))
    /\ UNCHANGED <<variant, bundle_file, model_data, stress_history, t_in, t_serve, t_train,
                   users, mood_journal, dataset, fitted, conns, gemini_model>>

\* {'entries': [...], 'count': len(entries)}, entry_date as a string.
journal_body(entries) ==
    [entries |-> [i \in 1..Len(entries) |->
                    [entries[i] EXCEPT !.entry_date = isoformat(@)]],
     count |-> Len(entries)]

\* ... WHERE user_id = ? ORDER BY entry_date DESC LIMIT 30
get_journal_entries(coll, user_id) == journal_body(limit(find_history(coll, user_id), 30))

\* GET /api/journal/<user_id>.
GetJournal(user_id) ==
    /\ pc = "serving"
    /\ pc' = "responded"
    /\ last' = ReadResponse("entries", user_id, 0, 200, "",
                            get_journal_entries(mood_journal, user_id))
    /\ UNCHANGED <<variant, bundle_file, model_data, stress_history, t_in, t_serve, t_train,
                   users, mood_journal, dataset, fitted, conns, gemini_model>>

\* Whose record the i-th of n stored records is: all of user "u", "u" and "x"
\* in turn, or "x" first and last with "u" between.
owner(mask, i, n) ==
    IF mask = "alternate" THEN (IF i % 2 = 1 THEN <<"u">> ELSE <<"x">>)
    ELSE IF mask = "ends" /\ i \in {1, n} THEN <<"x">>
    ELSE <<"u">>

\* A stress_history table of n records as predict_stress writes them, the
\* first cut of level a and the later ones of level b.
StoredHistory(n, cut, a, b, mask) ==
    [i \in 1..n |->
       [user_id |-> owner(mask, i, n),
        stress_level |-> IF i <= cut THEN a ELSE b,
        prediction_date |-> i]]

\* The stress_history tables the server starts on.
Histories ==
    {StoredHistory(n, cut, a, b, mask) :
       n \in {0, 1, 2, MaxRecords - 2, MaxRecords - 1, MaxRecords},
       cut \in 0..4 \cup {MaxRecords - 4}, a \in Range(Labels), b \in Range(Labels),
       mask \in {"one", "alternate", "ends"}}

\* The mood_journal tables the server starts on.
Journals ==
    {<<>>,
     <<[user_id |-> <<"x">>, mood |-> <<"m">>, entry_date |-> 1],
       [user_id |-> <<"u">>, mood |-> <<"m">>, entry_date |-> 2]>>}

\* The server is up on a database that holds records, with the model of a
\* label-encoder bundle loaded.
InitReport ==
    /\ variant \in {"sqlite", "mongodb"}
    /\ bundle_file = label_bundle(load_data(1))
    /\ model_data = load_model(bundle_file)
    /\ pc = "serving"
    /\ stress_history \in Histories
    /\ last = Idle
    /\ t_in = Unset
    /\ t_serve = Unset
    /\ t_train = Unset
    /\ users = {}
    /\ mood_journal \in Journals
    /\ dataset = NoData
    /\ fitted = NotRun
    /\ conns = NoConns
    /\ gemini_model = NoGemini

\* The /api/predict bodies sent between the reads: the complete record for
\* user "u" and for user "x".
ReportRequests ==
    {Append(BaseRecord, [k |-> "user_id", v |-> Str(uid)]) : uid \in PathUserIds}

NextReport ==
    \/ \E data \in ReportRequests : Predict(data)
    \/ \E user_id \in PathUserIds : AddJournal(user_id, <<"m">>)
    \/ \E user_id \in {<<>>} \cup PathUserIds : Forecast(user_id)
    \/ \E user_id \in PathUserIds, delay \in ReportDelays : WeeklyReport(user_id, delay)
    \/ \E user_id \in PathUserIds, delay \in ReportDelays : MonthlyReport(user_id, delay)
    \/ \E user_id \in PathUserIds : GetHistory(user_id)
    \/ \E user_id \in PathUserIds : GetJournal(user_id)
    \/ Respond

SpecReport == InitReport /\ [][NextReport]_vars

\* ---------------------------------------------------------------- /api/chat
\* The keys of FALLBACK_RESPONSES (backend/src/app_mongodb.py), in the order
\* the dict declares them.
FALLBACK_RESPONSES ==
    <<<<"s", "t", "r", "e", "s", "s", "e", "d">>,
      <<"a", "n", "x", "i", "o", "u", "s">>,
      <<"t", "i", "r", "e", "d">>,
      <<"h", "e", "l", "p">>,
      <<"b", "r", "e", "a", "t", "h", "i", "n", "g">>,
      <<"s", "l", "e", "e", "p">>,
      <<"w", "o", "r", "k">>,
      <<"r", "e", "l", "a", "x">>,
      <<"m", "e", "d", "i", "t", "a", "t", "i", "o", "n">>,
      <<"d", "e", "f", "a", "u", "l", "t">>>>

\* The keys of CHATBOT_RESPONSES (backendd/app.py, backendd/app_mongodb.py),
\* in the order the dict declares them.
CHATBOT_RESPONSES ==
    <<<<"h", "e", "l", "l", "o">>,
      <<"h", "i">>,
      <<"s", "t", "r", "e", "s", "s", "e", "d">>,
      <<"a", "n", "x", "i", "o", "u", "s">>,
      <<"t", "i", "r", "e", "d">>,
      <<"h", "e", "l", "p">>,
      <<"b", "r", "e", "a", "t", "h", "i", "n", "g">>,
      <<"s", "l", "e", "e", "p">>,
      <<"e", "x", "e", "r", "c", "i", "s", "e">>,
      <<"w", "o", "r", "k">>,
      <<"r", "e", "l", "a", "x">>,
      <<"t", "h", "a", "n", "k">>,
      <<"b", "y", "e">>>>

UpperCase ==
    <<"A", "B", "C", "D", "E", "F", "G", "H", "I", "J", "K",
      "L", "M", "N", "O", "P", "Q", "R", "S", "T", "U", "V", "W", "X", "Y", "Z">>

LowerCase ==
    <<"a", "b", "c", "d", "e", "f", "g", "h", "i", "j", "k",
      "l", "m", "n", "o", "p", "q", "r", "s", "t", "u", "v", "w", "x", "y", "z">>

\* str.lower()
lower(s) ==
    [i \in 1..Len(s) |->
       IF s[i] \in Range(UpperCase) THEN LowerCase[IndexOf(UpperCase, s[i])] ELSE s[i]]

RECURSIVE lstrip(_)
lstrip(s) == IF s # <<>> /\ Head(s) = " " THEN lstrip(Tail(s)) ELSE s

\* str.strip()
strip(s) == Reverse(lstrip(Reverse(lstrip(s))))

\* keyword in message: keyword is a substring of message.
contains(message, keyword) ==
    \E i \in 1..(Len(message) - Len(keyword) + 1) :
       SubSeq(message, i, i + Len(keyword) - 1) = keyword

\* The texts a response carries: the reply declared for a keyword, the
\* default reply, the prompt for an empty message, the generated text.
Reply(keyword) == [kind |-> "reply", keyword |-> keyword]

DefaultReply == [kind |-> "default", keyword |-> <<>>]

Prompt == [kind |-> "prompt", keyword |-> <<>>]

Generated == [kind |-> "generated", keyword |-> <<>>]

NoReply == [kind |-> "none", keyword |-> <<>>]

\* The value the dict holds under a key: FALLBACK_RESPONSES['default'] is the
\* default reply itself.
reply_of(keyword) ==
    IF keyword = <<"d", "e", "f", "a", "u", "l", "t">> THEN DefaultReply ELSE Reply(keyword)

\* for keyword, reply in table.items(): if keyword in message: ...; break
RECURSIVE first_reply(_, _)
first_reply(table, message) ==
    IF table = <<>> THEN DefaultReply
    ELSE IF contains(message, Head(table)) THEN reply_of(Head(table))
    ELSE first_reply(Tail(table), message)

\* The response of /api/chat.
ChatResponse(message, outcome, status, response, ai_powered) ==
    [message |-> message, outcome |-> outcome, response |-> response,
     ai_powered |-> ai_powered]
      @@ Response("chat", status, IF status = 200 THEN "" ELSE "AttributeError")

\* data.get('message', ''): the value sent, '' when the key is absent.
get_message(message) == IF message = Unset THEN Str(<<>>) ELSE message

\* chatbot of backendd/app.py and backendd/app_mongodb.py: the message is
\* lower-cased and looked up; the JSON has 'response' and 'timestamp' only.
\* A message that is not a string has no lower(): the handler raises.
keyword_chat(message) ==
    IF get_message(message).t # "str"
    THEN ChatResponse(message, "none", 500, NoReply, "absent")
    ELSE ChatResponse(message, "none", 200,
                      first_reply(CHATBOT_RESPONSES, lower(get_message(message).s)),
                      "absent")

\* The keyword part of chatbot of backend/src/app_mongodb.py.
fallback_chat(message, outcome, stripped) ==
    ChatResponse(message, outcome, 200,
                 first_reply(FALLBACK_RESPONSES, lower(stripped)), "false")

\* chatbot of backend/src/app_mongodb.py: the prompt for an empty message,
\* the generated text when gemini_model is set and generate_content returns,
\* the keyword reply otherwise. outcome is what generate_content does.
gemini_chat(gm, message, outcome) ==
    IF get_message(message).t # "str"
    THEN ChatResponse(message, "none", 500, NoReply, "absent")
    ELSE IF strip(get_message(message).s) = <<>>
    THEN ChatResponse(message, "none", 200, Prompt, "false")
    ELSE IF gm = NoGemini
    THEN fallback_chat(message, "none", strip(get_message(message).s))
    ELSE IF outcome = "text"
    THEN ChatResponse(message, outcome, 200, Generated, "true")
    ELSE fallback_chat(message, outcome, strip(get_message(message).s))

\* What the chat messages are made of.
Words ==
    {<<>>,
     <<"H", "i">>,
     <<"t", "h", "i", "s">>,
     <<"h", "e", "l", "l", "o">>,
     <<"t", "i", "r", "e", "d", " ", "h", "e", "l", "p">>,
     <<"h", "e", "l", "p", " ", "t", "i", "r", "e", "d">>,
     <<"x", "y", "z">>,
     <<"S", "L", "E", "E", "P">>,
     <<"b", "y", "e">>,
     <<"d", "e", "f", "a", "u", "l", "t">>,
     <<"t", "h", "a", "n", "k">>,
     <<"m", "e", "d", "i", "t", "a", "t", "i", "o", "n">>,
     <<"e", "x", "e", "r", "c", "i", "s", "e">>,
     <<"I", " ", "a", "m", " ", "s", "t", "r", "e", "s", "s", "e", "d">>}

\* The 'message' of a /api/chat body: a string, null, or no such key.
ChatMessages ==
    {Str(pad \o w) : w \in Words, pad \in {<<>>, <<" ">>}} \cup {None, Unset}

\* What the start of the process leaves in gemini_model: None when the
\* library is missing or configure / GenerativeModel raises, the model once
\* it is assigned, whether or not the test call after it succeeds.
init_gemini(env) ==
    IF env \in {"no_library", "configure_raises"} THEN NoGemini ELSE "GenerativeModel"

\* Module start-up of a chat server. variant "gemini" is
\* backend/src/app_mongodb.py, "mongodb" is backendd/app_mongodb.py and
\* "sqlite" is backendd/app.py; only the first has init_gemini().
InitGemini(env) ==
    /\ pc = "startup"
    /\ pc' = "serving"
    /\ gemini_model' = IF variant = "gemini" THEN init_gemini(env) ELSE gemini_model
    /\ UNCHANGED <<variant, bundle_file, model_data, stress_history, last, t_in, t_serve,
                   t_train, users, mood_journal, dataset, fitted, conns>>

\* POST /api/chat.
Chat(message, outcome) ==
    /\ pc = "serving"
    /\ pc' = "responded"
    /\ last' = IF variant = "gemini" THEN gemini_chat(gemini_model, message, outcome)
               ELSE keyword_chat(message)
    /\ UNCHANGED <<variant, bundle_file, model_data, stress_history, t_in, t_serve, t_train,
                   users, mood_journal, dataset, fitted, conns, gemini_model>>

InitChat ==
    /\ variant \in {"sqlite", "mongodb", "gemini"}
    /\ bundle_file = [NoModel EXCEPT !.kind = "missing"]
    /\ model_data = NoModel
    /\ pc = "startup"
    /\ stress_history = <<>>
    /\ last = Idle
    /\ t_in = Unset
    /\ t_serve = Unset
    /\ t_train = Unset
    /\ users = {}
    /\ mood_journal = <<>>
    /\ dataset = NoData
    /\ fitted = NotRun
    /\ conns = NoConns
    /\ gemini_model = NoGemini

NextChat ==
    \/ \E env \in {"no_library", "configure_raises", "test_raises", "ok"} : InitGemini(env)
    \/ \E message \in ChatMessages, outcome \in {"text", "raises"} : Chat(message, outcome)
    \/ Respond

SpecChat == InitChat /\ [][NextChat]_vars

\* ------------------------------------------------------------------- claims
KeySet(data) == {data[i].k : i \in 1..Len(data)}

\* The record with every non-feature key removed.
FeatureOnly(data) ==
    LET idx == Filter([i \in 1..Len(data) |-> i],
                      {i \in 1..Len(data) : data[i].k \in Range(features)})
    IN  [j \in 1..Len(idx) |-> data[idx[j]]]

\* The same key/value pairs, listed in data-set order.
InFeatureOrder(data) ==
    LET ks == Filter(features, KeySet(data))
    IN  [j \in 1..Len(ks) |-> [k |-> ks[j], v |-> Get(data, ks[j])]]

\* The vocabulary fitted for categorical field f.
FittedVocab(md, f) ==
    IF "onehot_encoder" \in md.keys THEN md.categories[f] ELSE md.le_classes[f]

\* All 6 categorical fields in the fitted vocabulary, both times valid clock
\* strings, all 13 numeric fields present.
CompleteValid(md, data) ==
    /\ \A f \in Range(cat_cols) :
         HasKey(data, f) /\ Get(data, f).t = "str"
           /\ Get(data, f).s \in Range(FittedVocab(md, f))
    /\ \A f \in Range(time_cols) :
         HasKey(data, f) /\ Get(data, f).t = "str"
           /\ pd_to_datetime(Get(data, f)).kind = "ts"
    /\ \A f \in Range(numeric_cols) \ Range(time_cols) :
         HasKey(data, f) /\ Get(data, f).t = "num"

\* C1: with the bundle of save_model loaded, a /api/predict request whose
\* record is complete and valid gets a success response whose stress_level is
\* one of Low, Medium, High.
C1_EndToEndLabel ==
    (last.op = "predict" /\ model_data.kind = "onehot"
       /\ CompleteValid(model_data, last.data))
      => (last.status = 200 /\ last.stress_level \in {"Low", "Medium", "High"})

\* C2: in every serving variant, decoding a class code gives the label that
\* the inverse_mapping persisted by training assigns to it (1 Low, 2 Medium,
\* 3 High).
C2_DecodeBijection ==
    (pc # "startup" /\ "inverse_mapping" \in model_data.keys)
      => \A code \in DOMAIN model_data.inverse_mapping :
           /\ ~inverse_transform(model_data, code).raised
           /\ inverse_transform(model_data, code).label
                = model_data.inverse_mapping[code]

\* C3: every vector preprocess_input returns has as many columns as the
\* classifier was fitted on.
C3_VectorLength ==
    (last.op = "predict" /\ last.pre_ok) => Len(last.df) = model_data.n_features_in

\* C4: keys of the request body that are not feature fields do not change the
\* vector: it is the vector of the record without them.
C4_NonFeatureKeysIgnored ==
    (last.op = "predict" /\ last.pre_ok)
      => LET r == run_preprocess_input(variant, model_data, FeatureOnly(last.data))
         IN  ~r.raised /\ r.df = last.df

\* C5: for a record holding exactly the feature fields, in whatever key order,
\* the vector's columns are those of the training matrix, each at its
\* position there, and the vector is the one the record gives in data-set order.
C5_FitTimeColumnOrder ==
    (last.op = "predict" /\ last.pre_ok /\ Len(last.data) = Len(features)
       /\ KeySet(last.data) = Range(features))
      => /\ [i \in 1..Len(last.df) |-> last.df[i].col] = model_data.feature_names
         /\ last.df = run_preprocess_input(variant, model_data,
                                           InFeatureOrder(last.data)).df

\* C6: a record lacking a required categorical field is rejected by
\* /api/predict with a 4xx status.
C6_MissingCategoricalIs4xx ==
    (last.op = "predict" /\ last.loaded
       /\ \E f \in Range(cat_cols) : ~HasKey(last.data, f))
      => last.status \in 400..499

\* The statuses /api/predict gives, with a model loaded, to a record that
\* lacks a required categorical field.
InputFailureStatuses(var) ==
    {r.status : r \in UNION {predict_stress(var, b, DropKey(BaseRecord, f)) :
                               b \in {x \in BundleFiles : load_model(x) # NoModel},
                               f \in Range(cat_cols)}}

\* C7: with no model loaded, /api/predict answers with a status that no
\* request failing for its input gets.
C7_UnavailableIsDistinct ==
    (last.op = "predict" /\ ~last.loaded)
      => last.status \notin InputFailureStatuses(variant)

\* C8: a categorical value outside the fitted vocabulary raises no error and
\* leaves every indicator column of its field at 0.
C8_UnseenCategoryAllZero ==
    \A f \in Range(cat_cols) :
      (last.op = "predict" /\ last.loaded
         /\ (\A g \in Range(cat_cols) : HasKey(last.data, g))
         /\ Get(last.data, f).s \notin Range(FittedVocab(model_data, f)))
        => /\ last.pre_ok
           /\ \A c \in Range(FittedVocab(model_data, f)) :
                /\ EncCol(f, c) \in Columns(last.df)
                /\ Cell(last.df, EncCol(f, c)) = Num(0)

\* hour*60 + minute of the clock string FormatClock(h, m, sfx).
ClockMinutes(h, m, sfx) ==
    (IF sfx = "PM" /\ h < 12 THEN h + 12 ELSE IF sfx = "AM" /\ h = 12 THEN 0 ELSE h) * 60 + m

ValidClock(h, m, sfx) ==
    m <= 59 /\ (IF sfx = "" THEN h <= 23 ELSE h \in 1..12)

\* C9: serving time_to_minutes returns an integer in 0..1439 for every input:
\* hour*60+minute for a clock string, 420 for None, nan, "" and "banana".
C9_ServingTimeRange ==
    (t_serve # Unset)
      => /\ t_serve.t = "num" /\ t_serve.n \in 0..1439
         /\ \A h \in TimeHours, m \in TimeMinutes, sfx \in {"", "AM", "PM"} :
              (ValidClock(h, m, sfx) /\ t_in = Str(FormatClock(h, m, sfx)))
                => t_serve.n = ClockMinutes(h, m, sfx)
         /\ (t_in \in {None, NaN, Str(<<>>), Str(<<"b", "a", "n", "a", "n", "a">>)})
              => t_serve.n = 420

\* C10: the training scripts' time_to_minutes returns what the serving one
\* returns, on every input.
C10_TrainServeTimeAgree ==
    (t_serve # Unset /\ t_train # Unset) => t_train = t_serve

\* The record holds every feature field except f (other keys aside).
LacksOnly(data, f) == KeySet(data) \cap Range(features) = Range(features) \ {f}

\* C11: in the MongoDB variants, a record from which one time field is absent
\* is preprocessed without error and its vector carries that field's column,
\* holding the default 420 (scaled when a scaler is fitted).
C11_AbsentTimeDefaults ==
    \A f \in Range(time_cols) :
      (last.op = "predict" /\ last.loaded /\ variant = "mongodb"
         /\ LacksOnly(last.data, f))
        => /\ last.pre_ok
           /\ Col(f) \in Columns(last.df)
           /\ Cell(last.df, Col(f)) \in {Num(420), Scaled(model_data, f, Num(420))}

\* C12: in the MongoDB variants, a record lacking one numeric field passes the
\* scaling step without error, and every numeric field that is present is
\* scaled with its own fitted mean and scale.
C12_AbsentNumericTolerated ==
    \A f \in Range(numeric_cols) \ Range(time_cols) :
      (last.op = "predict" /\ last.loaded /\ variant = "mongodb"
         /\ "scaler" \in model_data.keys /\ LacksOnly(last.data, f))
        => /\ last.pre_ok
           /\ \A g \in Range(model_data.scaler_cols) \ (Range(time_cols) \cup {f}) :
                /\ Col(g) \in Columns(last.df)
                /\ Cell(last.df, Col(g)) = Scaled(model_data, g, Get(last.data, g))

\* C13: a numeric field whose fitted variance is zero is scaled to 0, whatever
\* value the record gives it.
C13_ZeroStdScalesToZero ==
    (last.op = "predict" /\ last.pre_ok /\ "scaler" \in model_data.keys)
      => \A f \in Range(model_data.scaler_cols) :
           (model_data.var[f] = 0 /\ Col(f) \in Columns(last.df))
             => Cell(last.df, Col(f)) = Num(0)

\* C14: whichever training script ran, the rows the model was fitted on hold
\* the same number of rows of each class.
C14_FitSetBalanced ==
    (fitted.outcome = "fitted")
      => /\ fitted.counts.Low = fitted.counts.Medium
         /\ fitted.counts.Medium = fitted.counts.High

\* The bundle holds everything one variant's /api/predict reads: classifier,
\* scaling parameters, and either the one-hot vocabulary with the label
\* mapping or the label encoders.
Complete(md) ==
    \/ {"model", "scaler", "onehot_encoder", "inverse_mapping"} \subseteq md.keys
    \/ {"model", "scaler", "label_encoders"} \subseteq md.keys

\* C15: once load_model has run, model_data is None or a complete bundle, and
\* /api/predict never runs the classifier of an incomplete one.
C15_LoadAllOrNothing ==
    /\ pc # "startup" => (model_data = NoModel \/ Complete(model_data))
    /\ (last.op = "predict" /\ last.predicted) => Complete(model_data)

\* C16: no request changes model_data: from the end of start-up on, every step
\* leaves it as load_model set it.
C16_ModelNotMutated == [][pc # "startup" => model_data' = model_data]_vars

\* A request has failed with a model loaded.
C16_Witness ==
    pc = "responded" /\ last.op = "predict" /\ last.status = 500
      /\ model_data # NoModel

\* C17: start-up is left only once and never entered again; outside start-up
\* model_data is the finished result of load_model; and a handler runs only
\* outside start-up.
C17_LoadBeforeServing ==
    [][/\ pc # "startup" => pc' # "startup"
       /\ pc' # "startup" => model_data' = load_model(bundle_file')
       /\ last'.op # "none" => pc # "startup"]_vars

\* A handler has run the classifier of the loaded model.
C17_Witness ==
    last.op = "predict" /\ last.loaded /\ last.predicted /\ model_data = bundle_file

\* C18: every step keeps the stress_history records there are, in place and
\* unchanged (user_id, stress_level, prediction_date); it can only add after them.
C18_HistoryAppendOnly ==
    [][/\ Len(stress_history') >= Len(stress_history)
       /\ SubSeq(stress_history', 1, Len(stress_history)) = stress_history]_vars

\* Two records were inserted and then read through GET /api/history.
C18_Witness ==
    Len(stress_history) >= 2 /\ last.op = "history" /\ Len(last.history) >= 2

\* C19: a /api/predict step that answers with a failure leaves users,
\* stress_history, mood_journal and model_data unchanged, and the step after
\* it restores the state the request was made in, so that later requests get
\* what they would have got without it.
C19_FailureIsolated ==
    [][/\ (pc = "serving" /\ last'.op = "predict" /\ last'.status # 200)
            => UNCHANGED <<users, stress_history, mood_journal, model_data>>
       /\ (pc = "responded" /\ last.op = "predict" /\ last.status # 200)
            => /\ pc' = "serving"
               /\ last' = Idle
               /\ UNCHANGED <<variant, bundle_file, model_data, users,
                              stress_history, mood_journal>>]_vars

\* A request has failed while users, history and journal all hold records.
C19_Witness ==
    pc = "responded" /\ last.op = "predict" /\ last.status = 500
      /\ users # {} /\ stress_history # <<>> /\ mood_journal # <<>>

Rows(db, table) ==
    IF table = "users" THEN db.users
    ELSE IF table = "stress_history" THEN Range(db.stress_history)
    ELSE Range(db.mood_journal)

\* The request on slot c has been answered with success after a database
\* write: 201 for register and journal, 200 for a predict with a user_id.
Acknowledged(c) ==
    /\ c.pc = "done"
    /\ c.status = (IF c.op = "predict" THEN 200 ELSE 201)
    /\ c.op = "predict" => c.req # <<>>

\* C21: in the SQLite variant, whenever register or add_journal_entry has
\* answered 201, or predict_stress with a user_id has answered 200, the row
\* the request inserted is among the committed rows of its table.
C21_DurableBeforeAck ==
    variant = "sqlite"
      => \A p \in DOMAIN conns :
           Acknowledged(conns[p])
             => /\ conns[p].row # <<>>
                /\ conns[p].row.doc \in Rows(Db, conns[p].row.table)

\* SQLite: a register, a journal entry or a saving predict has been
\* acknowledged while another request is between its INSERT and its commit.
C21_Witness ==
    /\ variant = "sqlite"
    /\ \E p, q \in DOMAIN conns :
         /\ Acknowledged(conns[p])
         /\ conns[q].pc = "commit"
    /\ \E p \in DOMAIN conns : Acknowledged(conns[p]) /\ conns[p].op = "predict"

\* The register requests for email that have been answered 201.
Registered201(email) ==
    {p \in DOMAIN conns :
       /\ conns[p].op = "register" /\ conns[p].pc = "done" /\ conns[p].status = 201
       /\ conns[p].req.email = email}

HasUserId(data) == HasKey(data, "user_id") /\ Truthy(Get(data, "user_id"))

\* C22: a /api/predict answered 200 whose body carries a non-empty user_id
\* appends exactly one record to stress_history, holding that user_id and the
\* stress_level of the response; a /api/predict whose body has no user_id
\* leaves stress_history as it was.
C22_OneRecordPerSavedPrediction ==
    [][(pc = "serving" /\ last'.op = "predict")
         => /\ (last'.status = 200 /\ HasUserId(last'.data))
                 => /\ Len(stress_history') = Len(stress_history) + 1
                    /\ SubSeq(stress_history', 1, Len(stress_history)) = stress_history
                    /\ stress_history'[Len(stress_history')].user_id
                         = Get(last'.data, "user_id").s
                    /\ stress_history'[Len(stress_history')].stress_level
                         = last'.stress_level
            /\ ~HasUserId(last'.data) => stress_history' = stress_history]_vars

\* A prediction for user "u" has been answered 200 and its record added after
\* an earlier one.
C22_Witness ==
    /\ pc = "responded" /\ last.op = "predict" /\ last.status = 200
    /\ HasUserId(last.data)
    /\ Len(stress_history) = 2
    /\ stress_history[2].stress_level = last.stress_level

\* The ids of the registered users.
UserIdsOf(us) == {u.user_id : u \in us}

\* C24: every stress_history record and every mood_journal record carries the
\* user_id of a record in users.
C24_RecordsReferToUsers ==
    /\ \A i \in 1..Len(stress_history) : stress_history[i].user_id \in UserIdsOf(users)
    /\ \A i \in 1..Len(mood_journal) : mood_journal[i].user_id \in UserIdsOf(users)

\* The string a request body holds under key k.
Field(data, k) == Get(data, k).s

\* C26: /api/login answers 400 when email or password is missing, 200 when a
\* user with the given email exists whose stored hash is the hash of the given
\* password, and 401 otherwise; a 200 response carries that user's id, name
\* and email; no login changes users, stress_history, mood_journal or the
\* loaded model.
C26_LoginOutcome ==
    [][(pc = "serving" /\ last'.op = "login")
         => /\ UNCHANGED <<users, stress_history, mood_journal, model_data>>
            /\ last'.status =
                 (IF Field(last'.data, "email") = <<>> \/ Field(last'.data, "password") = <<>>
                  THEN 400
                  ELSE IF \E u \in users :
                            /\ u.email = Field(last'.data, "email")
                            /\ u.password
                                 = generate_password_hash(Field(last'.data, "password"))
                  THEN 200
                  ELSE 401)
            /\ last'.status = 200
                 => \E u \in users :
                      /\ u.email = Field(last'.data, "email")
                      /\ last'.user_id = u.user_id
                      /\ last'.name = u.name
                      /\ last'.email = u.email]_vars

\* With two users registered, one has logged in.
C26_Witness ==
    /\ pc = "responded" /\ last.op = "login" /\ last.status = 200
    /\ Cardinality(users) = 2

\* C27: a /api/register with a missing or empty name, email or password, or
\* with an email some user already has, is answered 400 and leaves users as it
\* was; any other is answered 201 and adds exactly one user, with the
\* request's name and email and an id no user had before.
C27_RegisterOutcome ==
    [][(pc = "serving" /\ last'.op = "register")
         => IF \/ Field(last'.data, "name") = <<>>
               \/ Field(last'.data, "email") = <<>>
               \/ Field(last'.data, "password") = <<>>
               \/ \E u \in users : u.email = Field(last'.data, "email")
            THEN last'.status = 400 /\ users' = users
            ELSE /\ last'.status = 201
                 /\ \E u \in users' :
                      /\ u \notin users
                      /\ users' = users \cup {u}
                      /\ u.user_id \notin UserIdsOf(users)
                      /\ u.user_id = last'.user_id
                      /\ u.name = Field(last'.data, "name")
                      /\ u.email = Field(last'.data, "email")]_vars

\* Two users have been registered, and a complete register for the email of
\* one of them has been refused.
C27_Witness ==
    /\ pc = "responded" /\ last.op = "register" /\ last.status = 400
    /\ Cardinality(users) = 2
    /\ Field(last.data, "name") # <<>> /\ Field(last.data, "password") # <<>>
    /\ \E u \in users : u.email = Field(last.data, "email")

\* The records of a table whose user_id is user_id, in table order.
Own(coll, user_id) == SelectSeq(coll, LAMBDA h : h.user_id = user_id)

\* C25: the response of the history, journal, forecast, weekly-report and
\* monthly-report endpoints for a user is the response the same request gets
\* from tables holding only that user's records: the records other users'
\* requests have added change nothing in it.
C25_PerUserIsolation ==
    pc = "responded"
      => /\ last.op = "history"
              => last.history
                   = history_body(find_history(Own(stress_history, last.user_id),
                                               last.user_id))
         /\ last.op = "entries"
              => last.body = get_journal_entries(Own(mood_journal, last.user_id),
                                                 last.user_id)
         /\ (last.op = "forecast" /\ last.status = 200)
              => last.body = forecast_stress(Own(stress_history, last.user_id),
                                             last.user_id)
         /\ last.op = "weekly"
              => last.body = weekly_report(Own(stress_history, last.user_id),
                                           last.user_id, last.now)
         /\ last.op = "monthly"
              => last.body = monthly_report(Own(stress_history, last.user_id),
                                            last.user_id, last.now)

\* A read for user "u", who has records, has been answered from tables in
\* which the latest stress_history record and a journal entry are user "x"'s.
C25_Witness ==
    /\ pc = "responded"
    /\ last.op \in {"history", "entries", "forecast", "weekly", "monthly"}
    /\ last.user_id = <<"u">>
    /\ Own(stress_history, <<"u">>) # <<>>
    /\ Len(stress_history) = 2 /\ stress_history[2].user_id = <<"x">>
    /\ Own(mood_journal, <<"x">>) # <<>>

\* Low = 1, Medium = 2, High = 3.
Score(level) == target_mapping[level]

\* The last min(10, n) of the user's n records, oldest first.
Window10(own) ==
    SubSeq(own, IF Len(own) > 10 THEN Len(own) - 9 ELSE 1, Len(own))

\* The forecast for a window of records, oldest first.
Direction(window) ==
    IF Score(window[Len(window)].stress_level) > Score(window[1].stress_level)
    THEN "Increasing"
    ELSE IF Score(window[Len(window)].stress_level) < Score(window[1].stress_level)
    THEN "Decreasing"
    ELSE "Stable"

\* C28: /api/forecast for a user with no history record reports 'Insufficient
\* data'; otherwise it compares the newest record with the oldest of the
\* user's 10 most recent ones: 'Increasing' when the newest scores higher,
\* 'Decreasing' when lower, 'Stable' when equal (so for a single record), and
\* data_points is min(10, number of the user's records).
C28_ForecastWindow ==
    (pc = "responded" /\ last.op = "forecast" /\ last.status = 200)
      => IF Own(stress_history, last.user_id) = <<>>
         THEN last.body.forecast = "Insufficient data"
         ELSE /\ last.body.forecast
                   = Direction(Window10(Own(stress_history, last.user_id)))
              /\ last.body.data_points
                   = Len(Window10(Own(stress_history, last.user_id)))

\* A forecast for a user with more than 10 records whose oldest record
\* differs in level from the oldest of the 10 most recent.
C28_Witness ==
    /\ pc = "responded" /\ last.op = "forecast" /\ last.status = 200
    /\ Len(Own(stress_history, last.user_id)) > 10
    /\ last.body.data_points = 10
    /\ Own(stress_history, last.user_id)[1].stress_level
         # Window10(Own(stress_history, last.user_id))[1].stress_level
    /\ last.body.forecast = "Stable"

\* The user's records dated since days before now.
InWindow(coll, user_id, now, days) ==
    SelectSeq(Own(coll, user_id), LAMBDA h : h.prediction_date >= now - days)

\* How many records of a sequence have level l.
CountOf(history, l) == Cardinality({i \in 1..Len(history) : history[i].stress_level = l})

\* Level d has a maximal count in dist, and no level listed before it has.
FirstMaximal(dist, d) ==
    /\ \A l \in Range(Labels) : dist[l] <= dist[d]
    /\ \A i \in 1..Len(Labels) : i < IndexOf(Labels, d) => dist[Labels[i]] < dist[d]

\* The days a report looks back.
WindowDays(op) == IF op = "weekly" THEN 7 ELSE 30

\* C29: in every weekly (monthly) report that is not empty, total_assessments
\* is the number of the user's records dated within the last 7 (30) days, the
\* counts of Low, Medium and High sum to it, and dominant_level is the first
\* of Low, Medium, High whose count is maximal.
C29_ReportCounts ==
    (pc = "responded" /\ last.op \in {"weekly", "monthly"}
       /\ "total_assessments" \in DOMAIN last.body)
      => /\ last.body.total_assessments
              = Len(InWindow(stress_history, last.user_id, last.now, WindowDays(last.op)))
         /\ last.body.distribution["Low"] + last.body.distribution["Medium"]
              + last.body.distribution["High"] = last.body.total_assessments
         /\ \A l \in Range(Labels) :
              last.body.distribution[l]
                = CountOf(InWindow(stress_history, last.user_id, last.now,
                                   WindowDays(last.op)), l)
         /\ FirstMaximal(last.body.distribution, last.body.dominant_level)

\* A report whose window leaves some of the user's records out and in which
\* two levels tie for the highest count.
C29_Witness ==
    /\ pc = "responded" /\ last.op \in {"weekly", "monthly"}
    /\ "total_assessments" \in DOMAIN last.body
    /\ last.body.total_assessments < Len(Own(stress_history, last.user_id))
    /\ last.body.dominant_level = "Medium"
    /\ last.body.distribution["Medium"] = last.body.distribution["High"]

\* The text of a chat message, '' for an absent one or one that is no string.
TextOf(message) == IF message.t = "str" THEN message.s ELSE <<>>

\* The keyword table of the variant that answered.
KeywordsOf(var) == IF var = "gemini" THEN FALLBACK_RESPONSES ELSE CHATBOT_RESPONSES

\* The reply of the first keyword of the table that occurs in text, the
\* default reply when none does.
ExpectedReply(table, text) ==
    IF \E i \in 1..Len(table) : contains(text, table[i])
    THEN reply_of(table[CHOOSE i \in 1..Len(table) :
                          /\ contains(text, table[i])
                          /\ \A j \in 1..(i - 1) : ~contains(text, table[j])])
    ELSE DefaultReply

\* C30: every /api/chat response has status 200 and a response text; an empty
\* or whitespace-only message gets the fixed prompt with ai_powered false; a
\* message answered without a successful generative call gets the reply of
\* the first declared keyword occurring in its lower-cased text, or the
\* default reply, with ai_powered false; ai_powered is true only after a
\* successful generative call.
C30_ChatAlwaysAnswers ==
    (pc = "responded" /\ last.op = "chat")
      => /\ last.status = 200
         /\ last.response # NoReply
         /\ strip(TextOf(last.message)) = <<>>
              => last.response = Prompt /\ last.ai_powered = "false"
         /\ (strip(TextOf(last.message)) # <<>> /\ last.outcome # "text")
              => /\ last.response
                      = ExpectedReply(KeywordsOf(variant), lower(TextOf(last.message)))
                 /\ last.ai_powered = "false"
         /\ last.ai_powered = "true" => last.outcome = "text"

====
